---- MODULE Spec2Model ----
(***************************************************************************)
(* State-machine model of the physics subsystem (PhysicsEngine) of the    *)
(* game framework.                                                        *)
(*                                                                         *)
(* Numbers.  The program computes with JavaScript numbers.  The model     *)
(* computes with exact rationals n/d in lowest terms (d > 0) and with NaN, *)
(* written as the record with d = 0.  Every arithmetic operator below is  *)
(* the exact real-number operation, with NaN propagating as in IEEE 754.  *)
(* Math.sqrt is exact on squares of rationals; a root that is irrational  *)
(* lies outside the number domain, and a call of update in which such a   *)
(* root is taken is not explored (see the field "exact" below).           *)
(***************************************************************************)
EXTENDS Integers, Sequences, FiniteSets, TLC

----------------------------------------------------------------------------
(* JavaScript numbers as rationals with NaN *)

RECURSIVE Gcd(_, _)
Gcd(a, b) == IF b = 0 THEN a ELSE Gcd(b, a % b)

IAbs(i) == IF i < 0 THEN -i ELSE i

NaN == [n |-> 0, d |-> 0]

isNaN(a) == a.d = 0

\* the number n/d (d # 0) in lowest terms
Q(n, d) ==
    LET g == Gcd(IAbs(n), IAbs(d))
        s == IF d < 0 THEN -1 ELSE 1
    IN  [n |-> s * (n \div g), d |-> s * (d \div g)]

Num(i) == [n |-> i, d |-> 1]

Zero == Num(0)

Lcm(a, b) == (a \div Gcd(a, b)) * b

\* a + b
Add(a, b) ==
    IF isNaN(a) \/ isNaN(b) THEN NaN
    ELSE LET l == Lcm(a.d, b.d)
         IN  Q(a.n * (l \div a.d) + b.n * (l \div b.d), l)

\* -a
Neg(a) == [n |-> -a.n, d |-> a.d]

\* a - b
Sub(a, b) == Add(a, Neg(b))

\* a * b
Mul(a, b) ==
    IF isNaN(a) \/ isNaN(b) THEN NaN
    ELSE IF a.n = 0 \/ b.n = 0 THEN Zero
    ELSE LET g1 == Gcd(IAbs(a.n), b.d)
             g2 == Gcd(IAbs(b.n), a.d)
         IN  [n |-> (a.n \div g1) * (b.n \div g2),
              d |-> (a.d \div g2) * (b.d \div g1)]

\* a / b; 0/0 is NaN (the model never divides a non-zero number by zero)
Div(a, b) ==
    IF isNaN(a) \/ isNaN(b) \/ b.n = 0 THEN NaN
    ELSE Mul(a, Q(b.d, b.n))

\* a < b, false when either is NaN
Lt(a, b) ==
    /\ ~isNaN(a)
    /\ ~isNaN(b)
    /\ LET l == Lcm(a.d, b.d)
       IN  a.n * (l \div a.d) < b.n * (l \div b.d)

\* a > b, false when either is NaN
Gt(a, b) == Lt(b, a)

\* a <= b, false when either is NaN
Le(a, b) == ~isNaN(a) /\ ~isNaN(b) /\ ~Lt(b, a)

MathMin(a, b) ==
    IF isNaN(a) \/ isNaN(b) THEN NaN ELSE IF Lt(b, a) THEN b ELSE a

MathMax(a, b) ==
    IF isNaN(a) \/ isNaN(b) THEN NaN ELSE IF Lt(a, b) THEN b ELSE a

MathAbs(a) == [n |-> IAbs(a.n), d |-> a.d]

\* the least integer >= a
MathCeil(a) ==
    IF isNaN(a) THEN NaN
    ELSE Num(IF a.n % a.d = 0 THEN a.n \div a.d ELSE (a.n \div a.d) + 1)

\* integer square root: the largest r in lo..hi with r * r <= i, by bisection
RECURSIVE ISqrtBetween(_, _, _)
ISqrtBetween(i, lo, hi) ==
    IF lo = hi THEN lo
    ELSE IF ((lo + hi + 1) \div 2) * ((lo + hi + 1) \div 2) <= i
         THEN ISqrtBetween(i, (lo + hi + 1) \div 2, hi)
         ELSE ISqrtBetween(i, lo, ((lo + hi + 1) \div 2) - 1)

ISqrt(i) == ISqrtBetween(i, 0, 46340)

IsSquare(i) == ISqrt(i) * ISqrt(i) = i

\* the numerator of x over the denominator m, a multiple of x.d
Over(x, m) == x.n * (m \div x.d)

\* p * p + q * q, where dx = p/m and dy = q/m over their common denominator m
SumSq(dx, dy) ==
    Over(dx, Lcm(dx.d, dy.d)) * Over(dx, Lcm(dx.d, dy.d))
        + Over(dy, Lcm(dx.d, dy.d)) * Over(dy, Lcm(dx.d, dy.d))

\* Math.sqrt(dx * dx + dy * dy) where the root is rational: it is
\* ISqrt(p * p + q * q) / m.  With dx = 0 (dy = 0) the root is |dy| (|dx|).
SumSqRoot(dx, dy) ==
    IF isNaN(dx) \/ isNaN(dy) THEN NaN
    ELSE IF dx.n = 0 THEN MathAbs(dy)
    ELSE IF dy.n = 0 THEN MathAbs(dx)
    ELSE Q(ISqrt(SumSq(dx, dy)), Lcm(dx.d, dy.d))

\* largest numerator squared when a root is taken
RootLimit == 100

\* the root above is in the number domain of the model: it is rational and
\* the sum of squares stays below 2^31
RootInDomain(dx, dy) ==
    \/ isNaN(dx) \/ isNaN(dy)
    \/ dx.n = 0
    \/ dy.n = 0
    \/ /\ IAbs(Over(dx, Lcm(dx.d, dy.d))) <= RootLimit
       /\ IAbs(Over(dy, Lcm(dx.d, dy.d))) <= RootLimit
       /\ IsSquare(SumSq(dx, dy))

\* F at the value of e.  TLC evaluates the argument of an operator when it is
\* first used; here e is evaluated before F is.
Then(e, F(_)) == CHOOSE r \in {F(v) : v \in {e}} : TRUE

----------------------------------------------------------------------------
(* PhysicsEngine: state *)

Vec(x, y) == [x |-> x, y |-> y]

BodyIds == {1, 2, 3}

VARIABLES
    gravity,      \* PhysicsEngine.gravity: a vector
    timeScale,    \* PhysicsEngine.timeScale
    maxSteps,     \* PhysicsEngine.maxSteps
    bodies,       \* PhysicsEngine.bodies: a Set, kept as the sequence of its
                  \* members in insertion order
    body,         \* the PhysicsBody objects of the program, by identity
    updates,      \* number of update calls made so far
    removed,      \* the objects removeBody was called on and addBody was
                  \* not called on since
    last,         \* the last call made on the engine: its name and arguments,
                  \* the objects and the registry as they were when it was
                  \* made, and what it did
    view,         \* the Set the caller got from getBodies(), if it got one
    otherBodies,  \* PhysicsEngine.bodies of a second engine
    game,         \* the fields of the GameEngine
    now,          \* performance.now(), in milliseconds
    raf,          \* the number of gameLoop callbacks requestAnimationFrame holds
    frame,        \* what the last call of gameLoop did
    events,       \* EventEmitter.events: a Map from event names to arrays
    wrappers,     \* the number of onceCallback closures once() has made
    invoked,      \* how often each of these closures has been called
    heard,        \* what the last call on the EventEmitter did
    net,          \* the fields of the NetworkManager
    sockets,      \* the WebSockets it has made, and what each has transmitted
    timers,       \* the reconnection timeouts that are pending
    told,         \* what the last step of the NetworkManager did
    entities,     \* Entity.components, active and visible of each Entity
    attached,     \* Component.entity of each Component
    tried,        \* what the last call on an Entity did
    input,        \* the fields of the InputManager
    fingers,      \* when each touch that is on the screen began
    clock,        \* Date.now()
    felt          \* what the last touch event did

\* the state of the callers of the engine
callerVars == <<view, otherBodies>>

\* the state outside the PhysicsEngine
\* the state of the GameEngine and of the browser it runs in
gameVars == <<game, now, raf, frame>>

\* the state of the EventEmitter
emitterVars == <<events, wrappers, invoked, heard>>

\* the state of the NetworkManager and of its sockets
networkVars == <<net, sockets, timers, told>>

\* the state of the Entities and of their Components
entityVars == <<entities, attached, tried>>

\* the state beyond the PhysicsEngine and its callers
\* the state of the InputManager and of the touch screen
inputVars == <<input, fingers, clock, felt>>

beyondPhysics == <<gameVars, emitterVars, networkVars, entityVars, inputVars>>

\* the state beyond the GameEngine and the PhysicsEngine
beyondGame == <<emitterVars, networkVars, entityVars, inputVars>>

outside == <<callerVars, beyondPhysics>>

vars == <<gravity, timeScale, maxSteps, bodies, body, updates, removed, last, outside>>

fixedTimeStep == Q(1, 60)

DefaultGravity == Vec(Zero, Q(981, 100))

DefaultTimeScale == Num(1)

DefaultMaxSteps == Num(3)

\* members of a sequence
Range(s) == {s[i] : i \in 1..Len(s)}

\* Set.prototype.add: appends unless present
SetAdd(s, e) == IF e \in Range(s) THEN s ELSE Append(s, e)

\* a delete by index that does not test the index: an absent element has
\* index -1, and the last element is removed
SetDeleteUnchecked(s, e) ==
    IF e \in Range(s) THEN SelectSeq(s, LAMBDA x : x # e)
    ELSE SubSeq(s, 1, Len(s) - 1)

\* a delete that leaves the set as it is
SetDeleteNothing(s, e) == s

\* Set.prototype.delete: removes if present, keeps the order of the rest
SetDelete(s, e) == SelectSeq(s, LAMBDA x : x # e)

\* a Set the caller holds: "own" tells whether it is an object of its own or
\* the registry itself, and "members" are the members of an object of its own
NoView == [made |-> FALSE, own |-> TRUE, members |-> <<>>]

\* a getBodies that hands out the registry itself
getBodiesLive(registry) == [made |-> TRUE, own |-> FALSE, members |-> <<>>]

\* getBodies (lines 180-182): new Set(this.bodies)
getBodies(registry) == [made |-> TRUE, own |-> TRUE, members |-> registry]

\* the members of the Set v while the registry is registry
Members(v, registry) == IF v.own THEN v.members ELSE registry

----------------------------------------------------------------------------
(* PhysicsEngine: step, checkCollisions, isColliding, resolveCollision.    *)
(* These operators work on a world w = [body, exact]: the objects, and    *)
(* whether every square root taken so far was in the number domain, and   *)
(* the trace of what the sub-steps did, in the order they did it.         *)

World(h) == [body |-> h, exact |-> TRUE, trace |-> <<>>]

\* an entry of the trace: a sub-step begins, the object a is integrated, or
\* the objects a and b are tested for collision
Event(kind, a, b) == [kind |-> kind, a |-> a, b |-> b]

logged(w, e) == [w EXCEPT !.trace = Append(w.trace, e)]

\* lines 57-58: gravity added to the acceleration
accelerated(o, g) ==
    Vec(Add(o.acceleration.x, g.x), Add(o.acceleration.y, g.y))

\* lines 61-62: the velocity, from the acceleration of lines 57-58
velocityAfter(o, g, deltaTime) ==
    Vec(Add(o.velocity.x, Mul(accelerated(o, g).x, deltaTime)),
        Add(o.velocity.y, Mul(accelerated(o, g).y, deltaTime)))

\* lines 65-66: the position, from the velocity of lines 61-62
positionAfter(o, g, deltaTime) ==
    Vec(Add(o.position.x, Mul(velocityAfter(o, g, deltaTime).x, deltaTime)),
        Add(o.position.y, Mul(velocityAfter(o, g, deltaTime).y, deltaTime)))

\* integration that moves the position by the velocity of the step before
integratePositionFirst(o, g, deltaTime) ==
    IF o.isStatic THEN o
    ELSE [o EXCEPT !.acceleration = Vec(Zero, Zero),
                   !.velocity = velocityAfter(o, g, deltaTime),
                   !.position = Vec(Add(o.position.x, Mul(o.velocity.x, deltaTime)),
                                    Add(o.position.y, Mul(o.velocity.y, deltaTime)))]

\* integration that leaves the acceleration as lines 57-58 made it
integrateKeepsAcceleration(o, g, deltaTime) ==
    IF o.isStatic THEN o
    ELSE [o EXCEPT !.acceleration = accelerated(o, g),
                   !.velocity = velocityAfter(o, g, deltaTime),
                   !.position = positionAfter(o, g, deltaTime)]

\* integration that does not skip static bodies
integrateStaticToo(o, g, deltaTime) ==
    [o EXCEPT !.acceleration = Vec(Zero, Zero),
              !.velocity = velocityAfter(o, g, deltaTime),
              !.position = positionAfter(o, g, deltaTime)]

\* lines 53-71 for one body of the registry
integrate(o, g, deltaTime) ==
    IF o.isStatic THEN o
    ELSE [o EXCEPT !.acceleration = Vec(Zero, Zero),
                   !.velocity = velocityAfter(o, g, deltaTime),
                   !.position = positionAfter(o, g, deltaTime)]

\* a test that takes boxes that only touch as apart
isCollidingStrict(bodyA, bodyB) ==
    ~(\/ Le(Add(bodyA.position.x, bodyA.bounds.width), bodyB.position.x)
      \/ Le(Add(bodyB.position.x, bodyB.bounds.width), bodyA.position.x)
      \/ Le(Add(bodyA.position.y, bodyA.bounds.height), bodyB.position.y)
      \/ Le(Add(bodyB.position.y, bodyB.bounds.height), bodyA.position.y))

isColliding(bodyA, bodyB) ==
    LET aLeft == bodyA.position.x
        aRight == Add(bodyA.position.x, bodyA.bounds.width)
        aTop == bodyA.position.y
        aBottom == Add(bodyA.position.y, bodyA.bounds.height)
        bLeft == bodyB.position.x
        bRight == Add(bodyB.position.x, bodyB.bounds.width)
        bTop == bodyB.position.y
        bBottom == Add(bodyB.position.y, bodyB.bounds.height)
    IN  ~(\/ Lt(aRight, bLeft)
          \/ Gt(aLeft, bRight)
          \/ Lt(aBottom, bTop)
          \/ Gt(aTop, bBottom))

Two == Num(2)

\* dx: centre of bodyB minus centre of bodyA (lines 115-118)
CentreDx(bodyA, bodyB) ==
    Sub(Add(bodyB.position.x, Div(bodyB.bounds.width, Two)),
        Add(bodyA.position.x, Div(bodyA.bounds.width, Two)))

\* dy (lines 119-122)
CentreDy(bodyA, bodyB) ==
    Sub(Add(bodyB.position.y, Div(bodyB.bounds.height, Two)),
        Add(bodyA.position.y, Div(bodyA.bounds.height, Two)))

\* length (line 123)
CentreDistance(bodyA, bodyB) ==
    SumSqRoot(CentreDx(bodyA, bodyB), CentreDy(bodyA, bodyB))

\* the collision normal (nx, ny) (lines 124-125)
Normal(bodyA, bodyB) ==
    Vec(Div(CentreDx(bodyA, bodyB), CentreDistance(bodyA, bodyB)),
        Div(CentreDy(bodyA, bodyB), CentreDistance(bodyA, bodyB)))

\* relativeVelocity (lines 128-130), n being the normal
RelativeVelocityAlong(bodyA, bodyB, n) ==
    Add(Mul(Sub(bodyB.velocity.x, bodyA.velocity.x), n.x),
        Mul(Sub(bodyB.velocity.y, bodyA.velocity.y), n.y))

RelativeVelocity(bodyA, bodyB) ==
    RelativeVelocityAlong(bodyA, bodyB, Normal(bodyA, bodyB))

\* restitution (line 136)
Restitution(bodyA, bodyB) == MathMin(bodyA.restitution, bodyB.restitution)

\* an impulse that is never halved
ImpulseWhole(bodyA, bodyB) ==
    Mul(Neg(Add(Num(1), Restitution(bodyA, bodyB))), RelativeVelocity(bodyA, bodyB))

\* an impulse weighted by the masses of the two bodies
ImpulseByMass(bodyA, bodyB) ==
    Div(Mul(Neg(Add(Num(1), Restitution(bodyA, bodyB))), RelativeVelocity(bodyA, bodyB)),
        Add(Div(Num(1), bodyA.mass), Div(Num(1), bodyB.mass)))

\* an impulse that is halved for every pair
ImpulseHalved(bodyA, bodyB) ==
    Div(Mul(Neg(Add(Num(1), Restitution(bodyA, bodyB))), RelativeVelocity(bodyA, bodyB)),
        Two)

\* impulse (lines 139-142)
Impulse(bodyA, bodyB) ==
    IF ~bodyA.isStatic /\ ~bodyB.isStatic
    THEN Div(Mul(Neg(Add(Num(1), Restitution(bodyA, bodyB))),
                 RelativeVelocity(bodyA, bodyB)),
             Two)
    ELSE Mul(Neg(Add(Num(1), Restitution(bodyA, bodyB))),
             RelativeVelocity(bodyA, bodyB))

\* an overlap taken from the width of the first body alone
OverlapOfFirst(bodyA, bodyB) ==
    Sub(bodyA.bounds.width, MathAbs(CentreDx(bodyA, bodyB)))

\* overlap (line 155)
Overlap(bodyA, bodyB) ==
    Sub(Div(Add(bodyA.bounds.width, bodyB.bounds.width), Two),
        MathAbs(CentreDx(bodyA, bodyB)))

\* lines 144-152, n being the normal
applyImpulseAlong(bodyA, bodyB, n, impulse) ==
    <<IF ~bodyA.isStatic
      THEN Vec(Sub(bodyA.velocity.x, Mul(impulse, n.x)),
               Sub(bodyA.velocity.y, Mul(impulse, n.y)))
      ELSE bodyA.velocity,
      IF ~bodyB.isStatic
      THEN Vec(Add(bodyB.velocity.x, Mul(impulse, n.x)),
               Add(bodyB.velocity.y, Mul(impulse, n.y)))
      ELSE bodyB.velocity>>

\* an impulse that is applied to the first body only
applyImpulseToFirst(bodyA, bodyB) ==
    applyImpulseAlong(bodyA, [bodyB EXCEPT !.isStatic = TRUE],
                      Normal(bodyA, bodyB), Impulse(bodyA, bodyB))

\* the two velocities after the impulse is applied (lines 144-152)
applyImpulse(bodyA, bodyB) ==
    applyImpulseAlong(bodyA, bodyB, Normal(bodyA, bodyB), Impulse(bodyA, bodyB))

\* a separation that always shares the overlap between the two bodies
separateHalfAlong(bodyA, bodyB, n, overlap) ==
    IF ~Gt(overlap, Zero) THEN <<bodyA.position, bodyB.position>>
    ELSE <<IF bodyA.isStatic THEN bodyA.position
           ELSE Vec(Sub(bodyA.position.x, Div(Mul(overlap, n.x), Two)),
                    Sub(bodyA.position.y, Div(Mul(overlap, n.y), Two))),
           IF bodyB.isStatic THEN bodyB.position
           ELSE Vec(Add(bodyB.position.x, Div(Mul(overlap, n.x), Two)),
                    Add(bodyB.position.y, Div(Mul(overlap, n.y), Two)))>>

separateHalf(bodyA, bodyB) ==
    separateHalfAlong(bodyA, bodyB, Normal(bodyA, bodyB), Overlap(bodyA, bodyB))

\* lines 156-169, n being the normal
separateAlong(bodyA, bodyB, n, overlap) ==
    IF ~Gt(overlap, Zero) THEN <<bodyA.position, bodyB.position>>
    ELSE IF ~bodyA.isStatic /\ ~bodyB.isStatic
    THEN <<Vec(Sub(bodyA.position.x, Div(Mul(overlap, n.x), Two)),
               Sub(bodyA.position.y, Div(Mul(overlap, n.y), Two))),
           Vec(Add(bodyB.position.x, Div(Mul(overlap, n.x), Two)),
               Add(bodyB.position.y, Div(Mul(overlap, n.y), Two)))>>
    ELSE IF ~bodyA.isStatic
    THEN <<Vec(Sub(bodyA.position.x, Mul(overlap, n.x)),
               Sub(bodyA.position.y, Mul(overlap, n.y))),
           bodyB.position>>
    ELSE IF ~bodyB.isStatic
    THEN <<bodyA.position,
           Vec(Add(bodyB.position.x, Mul(overlap, n.x)),
               Add(bodyB.position.y, Mul(overlap, n.y)))>>
    ELSE <<bodyA.position, bodyB.position>>

\* the two positions after the bodies are separated (lines 154-169)
separate(bodyA, bodyB) ==
    separateAlong(bodyA, bodyB, Normal(bodyA, bodyB), Overlap(bodyA, bodyB))

\* the pair with the velocities v and the positions p
moved(bodyA, bodyB, v, p) ==
    <<[bodyA EXCEPT !.velocity = v[1], !.position = p[1]],
      [bodyB EXCEPT !.velocity = v[2], !.position = p[2]]>>

\* lines 135-169: the pair with the impulse applied and the bodies separated
resolved(bodyA, bodyB) ==
    moved(bodyA, bodyB, applyImpulse(bodyA, bodyB), separate(bodyA, bodyB))

\* a resolution that does not test whether the bodies move apart
resolveCollisionAlways(bodyA, bodyB) ==
    IF bodyA.isStatic /\ bodyB.isStatic THEN <<bodyA, bodyB>>
    ELSE resolved(bodyA, bodyB)

\* a resolution that passes over a pair whose centres coincide
resolveCollisionGuarded(bodyA, bodyB) ==
    IF bodyA.isStatic /\ bodyB.isStatic THEN <<bodyA, bodyB>>
    ELSE IF CentreDistance(bodyA, bodyB) = Zero THEN <<bodyA, bodyB>>
    ELSE IF Gt(RelativeVelocity(bodyA, bodyB), Zero) THEN <<bodyA, bodyB>>
    ELSE resolved(bodyA, bodyB)

\* the pair <<bodyA, bodyB>> as resolveCollision leaves it
resolveCollision(bodyA, bodyB) ==
    IF bodyA.isStatic /\ bodyB.isStatic THEN <<bodyA, bodyB>>
    ELSE IF Gt(RelativeVelocity(bodyA, bodyB), Zero) THEN <<bodyA, bodyB>>
    ELSE resolved(bodyA, bodyB)

\* resolveCollision takes a root exactly when the pair is not static-static
ResolveInDomain(bodyA, bodyB) ==
    \/ bodyA.isStatic /\ bodyB.isStatic
    \/ RootInDomain(CentreDx(bodyA, bodyB), CentreDy(bodyA, bodyB))

\* the world with the objects a and b replaced by the pair r
withPair(w, a, b, r) ==
    [w EXCEPT !.body = [w.body EXCEPT ![a] = r[1], ![b] = r[2]]]

\* lines 82-87: the body of the pair loop, for the objects a and b
checkPair(w, a, b) ==
    IF ~isColliding(w.body[a], w.body[b]) THEN logged(w, Event("test", a, b))
    ELSE IF ~ResolveInDomain(w.body[a], w.body[b])
    THEN [logged(w, Event("test", a, b)) EXCEPT !.exact = FALSE]
    ELSE withPair(logged(w, Event("test", a, b)), a, b,
                  resolveCollision(w.body[a], w.body[b]))

\* a scan of the neighbours in the snapshot only
PairOrderAdjacent(n) == [k \in 1..(IF n = 0 THEN 0 ELSE n - 1) |-> <<k, k + 1>>]

\* the pairs <<i, j>>, i < j <= n, in the order of the two loops (lines 80-81)
PairOrder(n) ==
    LET ps == {<<i, j>> \in (1..n) \X (1..n) : i < j}
        Before(p, q) == p[1] < q[1] \/ (p[1] = q[1] /\ p[2] < q[2])
        Rank(p) == Cardinality({q \in ps : Before(q, p)}) + 1
    IN  [k \in 1..Cardinality(ps) |-> CHOOSE p \in ps : Rank(p) = k]

RECURSIVE scanPairs(_, _, _, _)
scanPairs(w, snapshot, order, k) ==
    IF k > Len(order) THEN w
    ELSE Then(checkPair(w, snapshot[order[k][1]], snapshot[order[k][2]]),
              LAMBDA v : scanPairs(v, snapshot, order, k + 1))

\* the registry is copied into an array before the scan (line 78)
checkCollisions(w, registry) ==
    Then(registry, LAMBDA snapshot : scanPairs(w, snapshot, PairOrder(Len(snapshot)), 1))

\* lines 53-71 for the object b: a static body is passed over
integrateOne(w, b, g, deltaTime) ==
    [(IF w.body[b].isStatic THEN w ELSE logged(w, Event("integrate", b, 0)))
        EXCEPT !.body[b] = integrate(w.body[b], g, deltaTime)]

RECURSIVE integrateAll(_, _, _, _, _)
integrateAll(w, registry, k, g, deltaTime) ==
    IF k > Len(registry) THEN w
    ELSE Then(integrateOne(w, registry[k], g, deltaTime),
              LAMBDA v : integrateAll(v, registry, k + 1, g, deltaTime))

step(w, registry, g, deltaTime) ==
    Then(integrateAll(logged(w, Event("step", 0, 0)), registry, 1, g, deltaTime),
         LAMBDA v : checkCollisions(v, registry))

\* the number of times the body of "for (let i = 0; i < steps; i++)" runs
LoopCount(steps) ==
    IF isNaN(steps) \/ ~Gt(steps, Zero) THEN 0 ELSE MathCeil(steps).n

RECURSIVE runSteps(_, _, _, _, _)
runSteps(w, registry, g, deltaTime, count) ==
    IF count = 0 THEN w
    ELSE Then(step(w, registry, g, deltaTime),
              LAMBDA v : runSteps(v, registry, g, deltaTime, count - 1))

\* a variable step: the scaled frame time shared between the steps
StepDurationVariable(scaledDeltaTime, steps) == Div(scaledDeltaTime, steps)

\* the duration update passes to each step (line 47)
StepDuration(scaledDeltaTime, steps) == fixedTimeStep

\* a step count without the cap
StepsOfUncapped(deltaTime, scale, limit) ==
    MathCeil(Div(Mul(deltaTime, scale), fixedTimeStep))

\* a step count taken from the unscaled frame time
StepsOfUnscaled(deltaTime, scale, limit) ==
    MathMin(limit, MathCeil(Div(deltaTime, fixedTimeStep)))

\* steps (lines 40-44)
StepsOf(deltaTime, scale, limit) ==
    MathMin(limit, MathCeil(Div(Mul(deltaTime, scale), fixedTimeStep)))

----------------------------------------------------------------------------
(* The bodies the gameplay code has created, and the inputs of the calls *)

NewBody(px, py, w, h, m, e, f, static) ==
    [position |-> Vec(px, py),
     velocity |-> Vec(Zero, Zero),
     acceleration |-> Vec(Zero, Zero),
     mass |-> m,
     restitution |-> e,
     friction |-> f,
     isStatic |-> static,
     bounds |-> [width |-> w, height |-> h]]

\* a column: a box, the static floor it rests on, and a second static box
\* that overlaps the floor from below
InitialHeap ==
    [b \in BodyIds |->
        CASE b = 1 -> NewBody(Zero, Zero, Num(2), Num(2), Num(1), Q(1, 2), Zero, FALSE)
          [] b = 2 -> NewBody(Zero, Num(2), Num(2), Num(2), Num(5), Num(1), Q(1, 2), TRUE)
          [] b = 3 -> NewBody(Zero, Num(3), Num(2), Num(2), Num(2), Zero, Num(1), TRUE)]

\* the inputs of isColliding and resolveCollision: object 1 is a box of
\* width 4 at the origin, object 2 a box beside it, on it, apart from it,
\* touching it at an edge or a corner, or with the same centre
PairVelocities == {Vec(Zero, Zero), Vec(Num(1), Zero), Vec(Num(-1), Num(2))}

PairRestitutions == {Zero, Q(1, 2), Num(1)}

PairPositions ==
    {Vec(Num(3), Zero), Vec(Num(-3), Zero), Vec(Zero, Num(3)), Vec(Num(3), Num(4)),
     Vec(Num(-3), Num(-4)), Vec(Num(4), Num(4)), Vec(Num(4), Zero), Vec(Num(5), Zero),
     Vec(Zero, Num(-5)), Vec(Zero, Zero)}

PairWidths == {Num(4), Num(2)}

\* the objects of a pair: box 1 with velocity v1, restitution e1 and
\* isStatic s1, and box 2 at p2 with width w2, velocity v2, e2 and s2
PairHeap(v1, e1, s1, p2, w2, v2, e2, s2) ==
    [b \in BodyIds |->
        CASE b = 1 -> [NewBody(Zero, Zero, Num(4), Num(4), Num(1), e1, Zero, s1)
                          EXCEPT !.velocity = v1]
          [] b = 2 -> [NewBody(p2.x, p2.y, w2, Num(4), Num(3), e2, Num(1), s2)
                          EXCEPT !.velocity = v2]
          [] b = 3 -> InitialHeap[3]]

\* two boxes of no extent at the same place, with the velocities v1 and v2
PointHeap(v1, s1, v2, s2) ==
    [b \in BodyIds |->
        CASE b = 1 -> [NewBody(Zero, Zero, Zero, Zero, Num(1), Num(1), Zero, s1)
                          EXCEPT !.velocity = v1]
          [] b = 2 -> [NewBody(Zero, Zero, Zero, Zero, Num(3), Num(1), Num(1), s2)
                          EXCEPT !.velocity = v2]
          [] b = 3 -> InitialHeap[3]]

DeltaTimes == {Zero, Q(1, 60), Q(1, 40), Q(1, 10)}

TimeScales == {Num(-1), Num(2)}

Gravities == {Vec(Zero, Zero), Vec(Zero, Num(60))}

\* a PhysicsConfig: the options it has, and their values (an option it does
\* not have is undefined, and the value written here is not read)
Config(has, g, scale, limit) ==
    [has |-> has, gravity |-> g, timeScale |-> scale, maxSteps |-> limit]

Configs ==
    {Config({}, DefaultGravity, DefaultTimeScale, DefaultMaxSteps),
     Config({"gravity", "maxSteps"}, Vec(Zero, Num(60)), DefaultTimeScale, Num(1)),
     Config({"timeScale", "maxSteps"}, DefaultGravity, Num(2), Zero),
     Config({"timeScale"}, DefaultGravity, Num(-1), DefaultMaxSteps)}

MaxUpdates == 1

NoCall ==
    [op |-> "new", a |-> 0, b |-> 0, arg |-> Zero, steps |-> 0, dts |-> <<>>,
     colliding |-> FALSE, scale |-> Zero, trace |-> <<>>,
     config |-> Config({}, DefaultGravity, DefaultTimeScale, DefaultMaxSteps)]

Called(op, a, arg) == [NoCall EXCEPT !.op = op, !.a = a, !.arg = arg]

----------------------------------------------------------------------------
(* GameEngine: the game loop.  Times are in milliseconds; a Scene is the   *)
(* class of scene.ts, whose onEnter and onExit do nothing and whose update *)
(* and render go through its entities.                                    *)

Scenes == {1, 2}

\* currentScene: Scene | null
NoScene == 0

MaxNow == 2000

MaxFrames == 3

MaxRaf == 2

\* the time between two readings of performance.now()
Elapses == {500}

\* the fields of a GameEngine after construction (lines 19-23), and with
\* them the time of the last start() and the number of frames run since
NewGame ==
    [currentScene |-> NoScene, isRunning |-> FALSE, lastFrameTime |-> 0,
     frameCount |-> 0, fps |-> 0, startTime |-> 0, framesRun |-> 0]

\* what a call of gameLoop did: whether it passed line 98, lastFrameTime and
\* currentScene as it found them, the time it read, the calls it made in
\* their order, and whether it called requestAnimationFrame; "since" is the
\* time of the start() before it and "frames" the number of frames the loop
\* has executed since then, this one included
NoFrame ==
    [ran |-> FALSE, before |-> 0, at |-> 0, scene |-> NoScene, did |-> <<>>,
     scheduled |-> FALSE, since |-> 0, frames |-> 0]

GameInit ==
    /\ game = NewGame
    /\ now = 0
    /\ raf = 0
    /\ frame = NoFrame

\* lines 100-101: deltaTime, in seconds
DeltaTimeOf(g, currentTime) == Q(currentTime - g.lastFrameTime, 1000)

\* lines 105-110, after line 102 has stored currentTime in lastFrameTime
countFrame(g, currentTime) ==
    IF currentTime - g.lastFrameTime >= 1000
    THEN [g EXCEPT !.fps = g.frameCount + 1, !.frameCount = 0,
                   !.lastFrameTime = currentTime]
    ELSE [g EXCEPT !.frameCount = g.frameCount + 1]

\* a loop that draws before it updates
drawFrameFirst(g, deltaTime) ==
    IF g.currentScene # NoScene
    THEN <<Event("clear", 0, Zero),
           Event("render", g.currentScene, Zero),
           Event("update", g.currentScene, deltaTime)>>
    ELSE <<>>

\* lines 113-117
drawFrame(g, deltaTime) ==
    IF g.currentScene # NoScene
    THEN <<Event("update", g.currentScene, deltaTime),
           Event("clear", 0, Zero),
           Event("render", g.currentScene, Zero)>>
    ELSE <<>>

\* the frame of gameLoop past the test of line 98
frameOf(g, currentTime) ==
    [game |-> countFrame([g EXCEPT !.lastFrameTime = currentTime,
                                   !.framesRun = g.framesRun + 1], currentTime),
     frame |-> [ran |-> TRUE,
                since |-> g.startTime,
                frames |-> g.framesRun + 1,
                before |-> g.lastFrameTime,
                at |-> currentTime,
                scene |-> g.currentScene,
                did |-> <<Event("deltaTime", 0, DeltaTimeOf(g, currentTime))>>
                           \o drawFrame(g, DeltaTimeOf(g, currentTime)),
                scheduled |-> TRUE]]

\* a loop that does not test isRunning
gameLoopUnguarded(g, currentTime) == frameOf(g, currentTime)

\* gameLoop (lines 97-121) on the engine g at the time currentTime: the
\* engine and the record of the call
gameLoop(g, currentTime) ==
    IF ~g.isRunning
    THEN [game |-> g,
          frame |-> [NoFrame EXCEPT !.before = g.lastFrameTime, !.at = currentTime,
                                    !.scene = g.currentScene,
                                    !.since = g.startTime, !.frames = g.framesRun]]
    ELSE frameOf(g, currentTime)

\* the fields of the engine start() sets before it calls gameLoop (49-52)
started(g, currentTime) ==
    [g EXCEPT !.isRunning = TRUE, !.lastFrameTime = currentTime,
              !.frameCount = 0, !.fps = 0,
              !.startTime = currentTime, !.framesRun = 0]

physicsVars ==
    <<gravity, timeScale, maxSteps, bodies, body, updates, removed, last, callerVars>>

\* start() (lines 46-56); no listener is registered for 'started'
Start ==
    /\ raf < MaxRaf
    /\ IF game.isRunning
       THEN UNCHANGED <<game, raf, frame>>
       ELSE \E r \in {gameLoop(started(game, now), now)} :
               /\ game' = r.game
               /\ frame' = r.frame
               /\ raf' = raf + (IF r.frame.scheduled THEN 1 ELSE 0)
    /\ UNCHANGED <<now, physicsVars, beyondGame>>

\* stop() (lines 61-64)
Stop ==
    /\ game' = [game EXCEPT !.isRunning = FALSE]
    /\ UNCHANGED <<now, raf, frame, physicsVars, beyondGame>>

\* setScene(scene) (lines 69-78)
SetScene(scene) ==
    /\ game' = [game EXCEPT !.currentScene = scene]
    /\ UNCHANGED <<now, raf, frame, physicsVars, beyondGame>>

\* the browser runs a callback requestAnimationFrame holds (line 120)
FrameCallback ==
    /\ raf > 0
    /\ game.isRunning => game.frameCount < MaxFrames
    /\ \E r \in {gameLoop(game, now)} :
          /\ game' = r.game
          /\ frame' = r.frame
          /\ raf' = (raf - 1) + (IF r.frame.scheduled THEN 1 ELSE 0)
    /\ UNCHANGED <<now, physicsVars, beyondGame>>

\* time passes
Elapse(ms) ==
    /\ now + ms <= MaxNow
    /\ now' = now + ms
    /\ UNCHANGED <<game, raf, frame, physicsVars, beyondGame>>

NextGame ==
    \/ Start
    \/ Stop
    \/ \E scene \in Scenes : SetScene(scene)
    \/ FrameCallback
    \/ \E ms \in Elapses : Elapse(ms)

----------------------------------------------------------------------------
(* EventEmitter.  A registered function is [cb, serial]: the callback cb   *)
(* itself when serial is 0, and the onceCallback closure number serial    *)
(* that once() made around cb otherwise.  The callbacks do what a         *)
(* listener may do during an emit: nothing, throw, unregister another     *)
(* callback, unregister themselves, or emit the event again.              *)

EventNames == {"hit"}

Plain == 1

Thrower == 2

Remover == 3

SelfRemover == 4

Reentrant == 5

Callbacks == {Plain, Thrower, Remover, SelfRemover, Reentrant}

\* the callbacks that are registered with once() too
OnceCallbacks == {Plain, Reentrant}

MaxListeners == 3

MaxOnce == 2

Fn(c, serial) == [cb |-> c, serial |-> serial]

NoHeard == [op |-> "new", pre |-> <<>>, log |-> <<>>, escaped |-> FALSE]

EmitterInit ==
    /\ events = <<>>
    /\ wrappers = 0
    /\ invoked = [n \in 1..MaxOnce |-> 0]
    /\ heard = NoHeard

\* this.events.get(event), and the array forEach goes through: an array that
\* was taken out of the Map is empty and stays empty
ArrayOf(map, event) == IF event \in DOMAIN map THEN map[event] ELSE <<>>

MapSet(map, event, array) ==
    [x \in DOMAIN map \cup {event} |-> IF x = event THEN array ELSE map[x]]

MapDelete(map, event) == [x \in DOMAIN map \ {event} |-> map[x]]

\* callbacks.indexOf(fn), from 1; 0 when fn is not in the array
IndexOf(array, fn) ==
    IF \E i \in 1..Len(array) : array[i] = fn
    THEN CHOOSE i \in 1..Len(array) :
            array[i] = fn /\ \A j \in 1..(i - 1) : array[j] # fn
    ELSE 0

\* callbacks.splice(index, 1)
Splice(array, index) ==
    IF index = 0 THEN array
    ELSE SubSeq(array, 1, index - 1) \o SubSeq(array, index + 1, Len(array))

\* lines 39-41 of off, on the array as splice left it
dropIfEmpty(map, event, array) ==
    IF array = <<>> THEN MapDelete(map, event) ELSE MapSet(map, event, array)

\* off(event, fn) (lines 30-42)
off(map, event, fn) ==
    IF event \notin DOMAIN map THEN map
    ELSE dropIfEmpty(map, event, Splice(map[event], IndexOf(map[event], fn)))

\* on(event, fn) (lines 18-23)
on(map, event, fn) == MapSet(map, event, Append(ArrayOf(map, event), fn))

\* listenerCount(event) (lines 87-89)
listenerCount(map, event) == IF event \in DOMAIN map THEN Len(map[event]) ELSE 0

\* the emitter while emit runs: the Map, the calls made so far with the
\* depth of the emit that made them, whether the Reentrant callback has yet
\* to emit, whether the callback that ran last threw, and whether an error
\* has left emit
Emitting(map, counts) ==
    [events |-> map, invoked |-> counts, log |-> <<>>, armed |-> TRUE,
     threw |-> FALSE, escaped |-> FALSE]

\* the call of fn is recorded
noted(st, fn, depth) ==
    [st EXCEPT !.log = Append(st.log, [fn |-> fn, depth |-> depth]),
               !.invoked = IF fn.serial = 0 THEN st.invoked
                           ELSE [st.invoked EXCEPT ![fn.serial] = st.invoked[fn.serial] + 1]]

\* an emit whose forEach has no try around the callback
afterCallbackUncaught(st) == [st EXCEPT !.escaped = st.escaped \/ st.threw]

\* lines 54-58: what the callback threw is caught and logged
afterCallback(st) == [st EXCEPT !.threw = FALSE]

RECURSIVE emit(_, _, _)
RECURSIVE forEach(_, _, _, _, _)
RECURSIVE callback(_, _, _, _)

\* a onceCallback that unregisters itself after the callback has returned
onceCallbackOffLast(st, event, fn, depth) ==
    Then(callback(st, event, fn.cb, depth),
         LAMBDA v : IF v.threw THEN v
                    ELSE [v EXCEPT !.events = off(v.events, event, fn)])

\* onceCallback (lines 68-71): off(event, onceCallback), then the callback
onceCallback(st, event, fn, depth) ==
    callback([st EXCEPT !.events = off(st.events, event, fn)], event, fn.cb, depth)

\* the function fn is called (line 55)
invoke(st, event, fn, depth) ==
    IF fn.serial = 0
    THEN callback(noted(st, fn, depth), event, fn.cb, depth)
    ELSE onceCallback(noted(st, fn, depth), event, fn, depth)

\* the body of the callback c
callback(st, event, c, depth) ==
    CASE c = Plain -> st
      [] c = Thrower -> [st EXCEPT !.threw = TRUE]
      [] c = Remover -> [st EXCEPT !.events = off(st.events, event, Fn(Plain, 0))]
      [] c = SelfRemover -> [st EXCEPT !.events = off(st.events, event, Fn(SelfRemover, 0))]
      [] c = Reentrant ->
            IF st.armed
            THEN Then(emit([st EXCEPT !.armed = FALSE], event, depth + 1),
                      LAMBDA v : [v EXCEPT !.threw = v.escaped])
            ELSE st

\* callbacks.forEach (lines 53-59): the indices k..len of the array, as the
\* array is when each of them is reached
forEach(st, event, k, len, depth) ==
    IF k > len \/ st.escaped THEN st
    ELSE IF k > Len(ArrayOf(st.events, event))
    THEN forEach(st, event, k + 1, len, depth)
    ELSE Then(afterCallback(invoke(st, event, ArrayOf(st.events, event)[k], depth)),
              LAMBDA v : forEach(v, event, k + 1, len, depth))

\* emit(event) (lines 49-60)
emit(st, event, depth) ==
    IF event \notin DOMAIN st.events THEN st
    ELSE forEach(st, event, 1, Len(st.events[event]), depth)

beyondEmitter == <<physicsVars, gameVars, networkVars, entityVars, inputVars>>

Heard(op, pre) == [NoHeard EXCEPT !.op = op, !.pre = pre]

On(event, c) ==
    /\ listenerCount(events, event) < MaxListeners
    /\ events' = on(events, event, Fn(c, 0))
    /\ heard' = Heard("on", ArrayOf(events, event))
    /\ UNCHANGED <<wrappers, invoked, beyondEmitter>>

\* once(event, c) (lines 67-73)
Once(event, c) ==
    /\ listenerCount(events, event) < MaxListeners
    /\ wrappers < MaxOnce
    /\ wrappers' = wrappers + 1
    /\ events' = on(events, event, Fn(c, wrappers + 1))
    /\ heard' = Heard("once", ArrayOf(events, event))
    /\ UNCHANGED <<invoked, beyondEmitter>>

Off(event, c) ==
    /\ events' = off(events, event, Fn(c, 0))
    /\ heard' = Heard("off", ArrayOf(events, event))
    /\ UNCHANGED <<wrappers, invoked, beyondEmitter>>

\* removeAllListeners(event) (lines 79-85)
RemoveAllListeners(event) ==
    /\ events' = MapDelete(events, event)
    /\ heard' = Heard("removeAllListeners", ArrayOf(events, event))
    /\ UNCHANGED <<wrappers, invoked, beyondEmitter>>

Emit(event) ==
    /\ \E st \in {emit(Emitting(events, invoked), event, 0)} :
          /\ events' = st.events
          /\ invoked' = st.invoked
          /\ heard' = [op |-> "emit", pre |-> ArrayOf(events, event),
                       log |-> st.log, escaped |-> st.escaped]
    /\ UNCHANGED <<wrappers, beyondEmitter>>

NextEmitter ==
    \/ \E event \in EventNames, c \in Callbacks : On(event, c)
    \/ \E event \in EventNames, c \in OnceCallbacks : Once(event, c)
    \/ \E event \in EventNames, c \in Callbacks : Off(event, c)
    \/ \E event \in EventNames : RemoveAllListeners(event)
    \/ \E event \in EventNames : Emit(event)

----------------------------------------------------------------------------
(* NetworkManager.  A socket is known by its place in sockets; 0 is null. *)
(* A message is known by its number: the n-th message passed to send.     *)
(* The browser opens and closes the sockets and fires the timers.         *)

MaxSockets == 2

MaxTimers == 2

MaxMessages == 2

DefaultReconnectAttempts == 5

NoSocket == 0

\* absent from the NetworkConfig
Absent == -1

\* config.reconnectAttempts
ReconnectAttempts == {Absent, 1}

\* config.serverUrl: one the WebSocket constructor takes and one it throws at
ServerUrls == {"ws://server", "server"}

\* fields (lines 9-16); messages counts the calls of send
NewNetwork ==
    [serverUrl |-> "", socket |-> NoSocket,
     reconnectAttempts |-> DefaultReconnectAttempts, currentAttempt |-> 0,
     pingTimer |-> FALSE, messageQueue |-> <<>>, messages |-> 0]

NewSocket == [readyState |-> "CONNECTING", sent |-> <<>>]

\* the manager, its sockets and its pending timeouts, with what the step
\* in progress has transmitted and whether it has called setTimeout
Network(n, ss, t) ==
    [net |-> n, sockets |-> ss, timers |-> t, sent |-> <<>>, scheduled |-> FALSE]

NoTold ==
    [op |-> "new", socket |-> NoSocket, queued |-> <<>>, attempt |-> 0,
     limit |-> DefaultReconnectAttempts, open |-> FALSE, sent |-> <<>>,
     scheduled |-> FALSE]

NetworkInit ==
    /\ net = NewNetwork
    /\ sockets = <<>>
    /\ timers = 0
    /\ told = NoTold

\* this.socket?.readyState === WebSocket.OPEN (lines 109, 117, 158)
isConnected(x) ==
    /\ x.net.socket # NoSocket
    /\ x.sockets[x.net.socket].readyState = "OPEN"

\* stopPingTimer (lines 88-93)
stopPingTimer(x) == [x EXCEPT !.net.pingTimer = FALSE]

\* startPingTimer (lines 81-86)
startPingTimer(x) == [stopPingTimer(x) EXCEPT !.net.pingTimer = TRUE]

\* handleDisconnect (lines 67-79)
handleDisconnect(x) ==
    IF x.net.currentAttempt < x.net.reconnectAttempts
    THEN [stopPingTimer(x) EXCEPT !.net.currentAttempt = x.net.currentAttempt + 1,
                                  !.timers = x.timers + 1,
                                  !.scheduled = TRUE]
    ELSE stopPingTimer(x)

\* new WebSocket(url) throws for a url that is not a ws: url
Throws(url) == url # "ws://server"

\* connect (lines 28-37)
connect(x) ==
    IF Throws(x.net.serverUrl)
    THEN handleDisconnect(x)
    ELSE startPingTimer([x EXCEPT !.sockets = Append(x.sockets, NewSocket),
                                  !.net.socket = Len(x.sockets) + 1])

\* sendRaw (lines 116-120)
sendRaw(x, message) ==
    IF isConnected(x)
    THEN [x EXCEPT !.sockets[x.net.socket].sent = Append(@, message),
                   !.sent = Append(@, message)]
    ELSE x

\* flushMessageQueue (lines 95-100)
RECURSIVE flushMessageQueue(_)
flushMessageQueue(x) ==
    IF x.net.messageQueue = <<>> THEN x
    ELSE flushMessageQueue(
            sendRaw([x EXCEPT !.net.messageQueue = Tail(@)],
                    Head(x.net.messageQueue)))

\* send (lines 102-114)
send(x, message) ==
    IF isConnected(x)
    THEN sendRaw(x, message)
    ELSE [x EXCEPT !.net.messageQueue = Append(@, message)]

\* socket.onopen (lines 42-46)
onopen(x) == flushMessageQueue([x EXCEPT !.net.currentAttempt = 0])

\* socket.onclose (lines 48-51)
onclose(x) == handleDisconnect(x)

\* socket.close(): a socket that is connecting or open starts closing
close(x, s) ==
    IF x.sockets[s].readyState \in {"CONNECTING", "OPEN"}
    THEN [x EXCEPT !.sockets[s].readyState = "CLOSING"]
    ELSE x

\* disconnect (lines 149-155)
disconnect(x) ==
    IF x.net.socket # NoSocket
    THEN stopPingTimer([close(x, x.net.socket) EXCEPT !.net.socket = NoSocket])
    ELSE stopPingTimer(x)

\* initialize (lines 19-26)
initialize(x, url, attempts) ==
    connect([x EXCEPT !.net.serverUrl = url,
                      !.net.reconnectAttempts =
                          IF attempts = Absent THEN DefaultReconnectAttempts
                          ELSE attempts])

beyondNetwork == <<physicsVars, gameVars, emitterVars, entityVars, inputVars>>

\* the step that took the manager to x becomes the state
Becomes(x, op, s) ==
    /\ Len(x.sockets) <= MaxSockets
    /\ x.timers <= MaxTimers
    /\ net' = x.net
    /\ sockets' = x.sockets
    /\ timers' = x.timers
    /\ told' = [op |-> op, socket |-> s, queued |-> net.messageQueue,
                attempt |-> net.currentAttempt, limit |-> net.reconnectAttempts,
                open |-> isConnected(Network(net, sockets, timers)),
                sent |-> x.sent, scheduled |-> x.scheduled]
    /\ UNCHANGED beyondNetwork

NetInitialize(url, attempts) ==
    /\ url \in ServerUrls
    /\ Becomes(initialize(Network(net, sockets, timers), url, attempts),
               "initialize", NoSocket)

\* the timeout of line 75 fires
Reconnect ==
    /\ timers > 0
    /\ Becomes(connect(Network(net, sockets, timers - 1)), "connect", NoSocket)

\* the browser opens the socket s
SocketOpens(s) ==
    /\ sockets[s].readyState = "CONNECTING"
    /\ Becomes(onopen(Network(net, [sockets EXCEPT ![s].readyState = "OPEN"], timers)),
               "open", s)

\* the socket s is closed: the connection failed, or was lost, or was closed
SocketCloses(s) ==
    /\ sockets[s].readyState # "CLOSED"
    /\ Becomes(onclose(Network(net, [sockets EXCEPT ![s].readyState = "CLOSED"], timers)),
               "close", s)

NetSend ==
    /\ net.messages < MaxMessages
    /\ Becomes(send(Network([net EXCEPT !.messages = @ + 1], sockets, timers),
                    net.messages + 1),
               "send", net.socket)

\* the interval of lines 83-85 fires
Ping ==
    /\ net.pingTimer
    /\ net.messages < MaxMessages
    /\ Becomes(send(Network([net EXCEPT !.messages = @ + 1], sockets, timers),
                    net.messages + 1),
               "ping", net.socket)

NetDisconnect ==
    /\ net.socket \in 0..Len(sockets)
    /\ Becomes(disconnect(Network(net, sockets, timers)), "disconnect", net.socket)

NextNetwork ==
    \/ \E url \in ServerUrls, attempts \in ReconnectAttempts :
          NetInitialize(url, attempts)
    \/ Reconnect
    \/ \E s \in 1..Len(sockets) : SocketOpens(s)
    \/ \E s \in 1..Len(sockets) : SocketCloses(s)
    \/ NetSend
    \/ Ping
    \/ NetDisconnect

----------------------------------------------------------------------------
(* Entity and Component *)

EntityIds == {1, 2}

\* three components of two classes: the first two are of the same class
ComponentIds == {1, 2, 3}

ConstructorName(c) == IF c = 3 THEN "Sprite" ELSE "Transform"

NoEntity == 0

\* fields of Entity (lines 7-10); components holds the values of the Map in
\* the order of insertion, and the key of a value is its constructor name
NewEntity == [components |-> <<>>, active |-> TRUE, visible |-> TRUE]

\* the Entities, the Components, and what the call in progress has thrown
\* and which Components it has told of it
Graph(es, cs) == [entities |-> es, attached |-> cs, threw |-> FALSE, calls |-> <<>>]

NoTried ==
    [op |-> "new", entity |-> NoEntity, component |-> 0, threw |-> FALSE,
     calls |-> <<>>, entities |-> [e \in EntityIds |-> NewEntity],
     attached |-> [c \in ComponentIds |-> NoEntity]]

EntityInit ==
    /\ entities = [e \in EntityIds |-> NewEntity]
    /\ attached = [c \in ComponentIds |-> NoEntity]
    /\ tried = NoTried

\* this.components.has(type)
has(components, type) ==
    \E i \in 1..Len(components) : ConstructorName(components[i]) = type

\* this.components.delete(type)
delete(components, type) ==
    SelectSeq(components, LAMBDA c : ConstructorName(c) # type)

\* Component.onAddedToEntity (component.ts, lines 10-12)
onAddedToEntity(x, c, e) ==
    [x EXCEPT !.attached[c] = e, !.calls = Append(@, <<"onAddedToEntity", c>>)]

\* Component.onRemovedFromEntity (component.ts, lines 14-16)
onRemovedFromEntity(x, c) ==
    [x EXCEPT !.attached[c] = NoEntity, !.calls = Append(@, <<"onRemovedFromEntity", c>>)]

\* this.components.set(type, component): the value of a key that is there
\* is replaced where it is
set(components, c) ==
    IF has(components, ConstructorName(c))
    THEN [i \in 1..Len(components) |->
            IF ConstructorName(components[i]) = ConstructorName(c) THEN c
            ELSE components[i]]
    ELSE Append(components, c)

\* an addComponent that does not look for a component of the same type
addComponentUnchecked(x, e, c) ==
    onAddedToEntity([x EXCEPT !.entities[e].components = set(@, c)], c, e)

\* Entity.addComponent (lines 40-48)
addComponent(x, e, c) ==
    IF has(x.entities[e].components, ConstructorName(c))
    THEN [x EXCEPT !.threw = TRUE]
    ELSE onAddedToEntity([x EXCEPT !.entities[e].components = set(@, c)], c, e)

\* Entity.removeComponent (lines 50-55)
removeComponent(x, e, c) ==
    IF has(x.entities[e].components, ConstructorName(c))
    THEN onRemovedFromEntity(
            [x EXCEPT !.entities[e].components = delete(@, ConstructorName(c))], c)
    ELSE x

\* lines 68-70 and 76-78: the hook of every value of the Map, in the order
\* of the Map; the hooks of Component do nothing (component.ts, lines 34-40)
callEach(x, components, hook) ==
    [x EXCEPT !.calls = @ \o [i \in 1..Len(components) |-> <<hook, components[i]>>]]

\* an update that does not look at active
updateInactiveToo(x, e) == callEach(x, x.entities[e].components, "update")

\* Entity.update (lines 65-71)
update(x, e) ==
    IF ~x.entities[e].active THEN x
    ELSE callEach(x, x.entities[e].components, "update")

\* Entity.render (lines 73-79)
render(x, e) ==
    IF ~x.entities[e].active \/ ~x.entities[e].visible THEN x
    ELSE callEach(x, x.entities[e].components, "render")

beyondEntity == <<physicsVars, gameVars, emitterVars, networkVars, inputVars>>

\* the call that took the graph to x has returned or thrown
Returns(x, op, e, c) ==
    /\ entities' = x.entities
    /\ attached' = x.attached
    /\ tried' = [op |-> op, entity |-> e, component |-> c, threw |-> x.threw,
                 calls |-> x.calls, entities |-> entities, attached |-> attached]
    /\ UNCHANGED beyondEntity

\* the same for a call that takes no component: what the Maps were before
\* it is not kept
Done(x, op, e) ==
    /\ entities' = x.entities
    /\ attached' = x.attached
    /\ tried' = [NoTried EXCEPT !.op = op, !.entity = e, !.calls = x.calls]
    /\ UNCHANGED beyondEntity

AddComponent(e, c) ==
    /\ e \in EntityIds
    /\ Returns(addComponent(Graph(entities, attached), e, c), "addComponent", e, c)

RemoveComponent(e, c) ==
    /\ e \in EntityIds
    /\ Returns(removeComponent(Graph(entities, attached), e, c), "removeComponent", e, c)

\* Entity.setActive (lines 28-30)
SetActive(e, active) ==
    /\ e \in EntityIds
    /\ Done([Graph(entities, attached) EXCEPT !.entities[e].active = active],
            "setActive", e)

\* Entity.setVisible (lines 36-38)
SetVisible(e, visible) ==
    /\ e \in EntityIds
    /\ Done([Graph(entities, attached) EXCEPT !.entities[e].visible = visible],
            "setVisible", e)

EntityUpdate(e) ==
    /\ e \in EntityIds
    /\ Done(update(Graph(entities, attached), e), "update", e)

EntityRender(e) ==
    /\ e \in EntityIds
    /\ Done(render(Graph(entities, attached), e), "render", e)

NextEntity ==
    \/ \E e \in EntityIds, c \in ComponentIds : AddComponent(e, c)
    \/ \E e \in EntityIds, c \in ComponentIds : RemoveComponent(e, c)

\* what a scene does with the entities it is given
NextShown ==
    \/ \E e \in EntityIds, c \in ComponentIds : AddComponent(e, c)
    \/ \E e \in EntityIds, active \in BOOLEAN : SetActive(e, active)
    \/ \E e \in EntityIds, visible \in BOOLEAN : SetVisible(e, visible)
    \/ \E e \in EntityIds : EntityUpdate(e)
    \/ \E e \in EntityIds : EntityRender(e)

----------------------------------------------------------------------------
(* InputManager: the touch events of setupTouchEvents and the tap         *)
(* listeners.  Times are in milliseconds.  A touch event carries its      *)
(* changedTouches: the identifiers of the touches and where they are.     *)

TouchIds == {1, 2}

Positions == {<<0, 0>>, <<1, 2>>}

TapListeners == {1, 2}

\* Date.now() when the page is loaded, and the last time of the model
Loaded == 1000

MaxClock == 1600

\* the time between two events
Pauses == {150}

TapLimit == 300

\* the touch is not on the screen
Lifted == -1

\* the changedTouches an event may carry
ChangedTouches == UNION {[ids -> Positions] : ids \in (SUBSET TouchIds) \ {{}}}

\* fields (lines 17-24): touchPoints is a Map from identifiers to points
NewInput == [touchPoints |-> <<>>, lastTouchTimestamp |-> 0, tapListeners |-> {}]

NoFelt == [op |-> "new", ids |-> {}, shortest |-> 0, notified |-> {}]

InputInit ==
    /\ input = NewInput
    /\ fingers = [i \in TouchIds |-> Lifted]
    /\ clock = Loaded
    /\ felt = NoFelt

\* the InputManager during an event, with the listeners the event has called
Handling(i) == [input |-> i, notified |-> {}]

\* touchPoints.set for each of the changed touches that meets the test
setEach(points, changed, ids) ==
    [id \in DOMAIN points \cup ids |->
        IF id \in ids THEN [id |-> id, x |-> changed[id][1], y |-> changed[id][2]]
        ELSE points[id]]

\* touchPoints.delete for each of the changed touches
deleteEach(points, changed) ==
    [id \in DOMAIN points \ DOMAIN changed |-> points[id]]

\* notifyTapListeners (lines 149-151)
notifyTapListeners(x) == [x EXCEPT !.notified = @ \cup x.input.tapListeners]

\* the touchstart listener (lines 83-96)
touchstart(x, changed, t) ==
    [x EXCEPT !.input.touchPoints = setEach(@, changed, DOMAIN changed),
              !.input.lastTouchTimestamp = t]

\* the touchmove listener (lines 99-111)
touchmove(x, changed) ==
    [x EXCEPT !.input.touchPoints =
                 setEach(@, changed, DOMAIN changed \cap DOMAIN x.input.touchPoints)]

\* the touchend listener (lines 114-126)
touchend(x, changed, t) ==
    IF t - x.input.lastTouchTimestamp < TapLimit
    THEN notifyTapListeners([x EXCEPT !.input.touchPoints = deleteEach(@, changed)])
    ELSE [x EXCEPT !.input.touchPoints = deleteEach(@, changed)]

\* the touchcancel listener (lines 129-135)
touchcancel(x, changed) ==
    [x EXCEPT !.input.touchPoints = deleteEach(@, changed)]

beyondInput == <<physicsVars, gameVars, emitterVars, networkVars, entityVars>>

\* how long the touch id has been on the screen
Lasted(id) == IF fingers[id] = Lifted THEN 0 ELSE clock - fingers[id]

\* the shortest time one of the touches ids has been on the screen
Shortest(ids) ==
    CHOOSE d \in {Lasted(id) : id \in ids} : \A id \in ids : d <= Lasted(id)

\* the event op on the touches ids has been handled and left x
Handled(x, op, ids) ==
    /\ input' = x.input
    /\ felt' = [op |-> op, ids |-> ids, shortest |-> Shortest(ids),
                notified |-> x.notified]
    /\ UNCHANGED <<clock, beyondInput>>

\* fingers come down on the screen
TouchStart(changed) ==
    /\ \A id \in DOMAIN changed : fingers[id] = Lifted
    /\ fingers' = [id \in TouchIds |-> IF id \in DOMAIN changed THEN clock ELSE fingers[id]]
    /\ Handled(touchstart(Handling(input), changed, clock), "touchstart", DOMAIN changed)

\* fingers that are on the screen move
TouchMove(changed) ==
    /\ \A id \in DOMAIN changed : fingers[id] # Lifted
    /\ UNCHANGED fingers
    /\ Handled(touchmove(Handling(input), changed), "touchmove", DOMAIN changed)

\* fingers are lifted
TouchEnd(changed) ==
    /\ \A id \in DOMAIN changed : fingers[id] # Lifted
    /\ fingers' = [id \in TouchIds |-> IF id \in DOMAIN changed THEN Lifted ELSE fingers[id]]
    /\ Handled(touchend(Handling(input), changed, clock), "touchend", DOMAIN changed)

\* the browser takes touches away
TouchCancel(changed) ==
    /\ \A id \in DOMAIN changed : fingers[id] # Lifted
    /\ fingers' = [id \in TouchIds |-> IF id \in DOMAIN changed THEN Lifted ELSE fingers[id]]
    /\ Handled(touchcancel(Handling(input), changed), "touchcancel", DOMAIN changed)

\* onTap (lines 139-141)
OnTap(listener) ==
    /\ input' = [input EXCEPT !.tapListeners = @ \cup {listener}]
    /\ felt' = NoFelt
    /\ UNCHANGED <<fingers, clock, beyondInput>>

\* offTap (lines 144-146)
OffTap(listener) ==
    /\ input' = [input EXCEPT !.tapListeners = @ \ {listener}]
    /\ felt' = NoFelt
    /\ UNCHANGED <<fingers, clock, beyondInput>>

\* time passes
Pause(ms) ==
    /\ clock + ms <= MaxClock
    /\ clock' = clock + ms
    /\ UNCHANGED <<input, fingers, felt, beyondInput>>

NextInput ==
    \/ \E changed \in ChangedTouches : TouchStart(changed)
    \/ \E changed \in ChangedTouches : TouchMove(changed)
    \/ \E changed \in ChangedTouches : TouchEnd(changed)
    \/ \E changed \in ChangedTouches : TouchCancel(changed)
    \/ \E listener \in TapListeners : OnTap(listener)
    \/ \E listener \in TapListeners : OffTap(listener)
    \/ \E ms \in Pauses : Pause(ms)

----------------------------------------------------------------------------
(* PhysicsEngine: the public operations *)

Init ==
    /\ gravity = DefaultGravity
    /\ timeScale = DefaultTimeScale
    /\ maxSteps = DefaultMaxSteps
    /\ bodies = <<>>
    /\ body = InitialHeap
    /\ updates = 0
    /\ removed = {}
    /\ view = NoView
    /\ otherBodies = <<>>
    /\ GameInit
    /\ EmitterInit
    /\ NetworkInit
    /\ EntityInit
    /\ InputInit
    /\ last = [call |-> NoCall, body |-> body, bodies |-> bodies, view |-> <<>>]

Remember(call) ==
    last' = [call |-> call, body |-> body, bodies |-> bodies,
             view |-> Members(view, bodies)]

\* config[option] ?? other
Coalesce(config, option, other) ==
    IF option \in config.has THEN config[option] ELSE other

Initialize(config) ==
    /\ gravity' = Coalesce(config, "gravity", gravity)
    /\ timeScale' = Coalesce(config, "timeScale", DefaultTimeScale)
    /\ maxSteps' = Coalesce(config, "maxSteps", DefaultMaxSteps)
    /\ Remember([Called("initialize", 0, Zero) EXCEPT !.config = config])
    /\ UNCHANGED <<bodies, body, updates, removed, outside>>

AddBody(b) ==
    /\ bodies' = SetAdd(bodies, b)
    /\ removed' = removed \ {b}
    /\ Remember(Called("addBody", b, Zero))
    /\ UNCHANGED <<gravity, timeScale, maxSteps, body, updates, outside>>

RemoveBody(b) ==
    /\ bodies' = SetDelete(bodies, b)
    /\ removed' = removed \cup {b}
    /\ Remember(Called("removeBody", b, Zero))
    /\ UNCHANGED <<gravity, timeScale, maxSteps, body, updates, outside>>

\* the objects after the sub-steps of update(deltaTime)
updated(deltaTime) ==
    runSteps(World(body), bodies, gravity,
             StepDuration(Mul(deltaTime, timeScale),
                          StepsOf(deltaTime, timeScale, maxSteps)),
             LoopCount(StepsOf(deltaTime, timeScale, maxSteps)))

Update(deltaTime) ==
    /\ updates < MaxUpdates
    /\ \E w \in {updated(deltaTime)} :
          /\ w.exact
          /\ body' = w.body
          /\ Remember([Called("update", 0, deltaTime) EXCEPT
                !.scale = timeScale,
                !.trace = w.trace,
                !.steps = LoopCount(StepsOf(deltaTime, timeScale, maxSteps)),
                !.dts = [i \in 1..LoopCount(StepsOf(deltaTime, timeScale, maxSteps)) |->
                            StepDuration(Mul(deltaTime, timeScale),
                                         StepsOf(deltaTime, timeScale, maxSteps))]])
    /\ updates' = updates + 1
    /\ UNCHANGED <<gravity, timeScale, maxSteps, bodies, removed, outside>>

SetGravity(x, y) ==
    /\ gravity' = Vec(x, y)
    /\ Remember(Called("setGravity", 0, Zero))
    /\ UNCHANGED <<timeScale, maxSteps, bodies, body, updates, removed, outside>>

\* a setter that stores its argument as it is
storedTimeScaleUnclamped(scale) == scale

\* the value setTimeScale stores (line 177)
storedTimeScale(scale) == MathMax(Zero, scale)

SetTimeScale(scale) ==
    /\ timeScale' = storedTimeScale(scale)
    /\ Remember(Called("setTimeScale", 0, scale))
    /\ UNCHANGED <<gravity, maxSteps, bodies, body, updates, removed, outside>>

Next ==
    \/ \E config \in Configs : Initialize(config)
    \/ \E b \in BodyIds : AddBody(b)
    \/ \E b \in BodyIds : RemoveBody(b)
    \/ \E deltaTime \in DeltaTimes : Update(deltaTime)
    \/ \E g \in Gravities : SetGravity(g.x, g.y)
    \/ \E scale \in TimeScales : SetTimeScale(scale)

Spec == Init /\ [][Next]_vars

----------------------------------------------------------------------------
(* The gameplay code that owns the bodies puts forces on them: it adds to  *)
(* the acceleration of a body between two updates.                         *)

Accelerations == {Vec(Num(-2), Num(3))}

\* two boxes that fall side by side, far from each other, and a static box
\* under the first
ForceHeap ==
    [b \in BodyIds |->
        CASE b = 1 -> InitialHeap[1]
          [] b = 2 -> NewBody(Num(10), Zero, Num(2), Num(2), Num(3), Num(1), Zero, FALSE)
          [] b = 3 -> InitialHeap[2]]

InitForce ==
    /\ gravity = DefaultGravity
    /\ timeScale = DefaultTimeScale
    /\ maxSteps = DefaultMaxSteps
    /\ bodies = <<>>
    /\ body = ForceHeap
    /\ updates = 0
    /\ removed = {}
    /\ view = NoView
    /\ otherBodies = <<>>
    /\ GameInit
    /\ EmitterInit
    /\ NetworkInit
    /\ EntityInit
    /\ InputInit
    /\ last = [call |-> NoCall, body |-> body, bodies |-> bodies, view |-> <<>>]

\* body.acceleration.x += a.x; body.acceleration.y += a.y, on a body at rest
Accelerate(b, a) ==
    /\ body[b].acceleration = Vec(Zero, Zero)
    /\ body' = [body EXCEPT ![b].acceleration = Vec(Add(@.x, a.x), Add(@.y, a.y))]
    /\ Remember(Called("accelerate", b, Zero))
    /\ UNCHANGED <<gravity, timeScale, maxSteps, bodies, updates, removed, outside>>

NextForce ==
    \/ \E b \in BodyIds : AddBody(b)
    \/ \E b \in BodyIds, a \in Accelerations : Accelerate(b, a)
    \/ \E deltaTime \in DeltaTimes : Update(deltaTime)

\* an engine whose bodies are pushed by the gameplay code
SpecForce == InitForce /\ [][NextForce]_vars

----------------------------------------------------------------------------
(* The registry and its callers: getBodies and what a caller does with the *)
(* Set it returns, and a second engine the same objects are given to.     *)

GetBodies ==
    /\ view' = getBodies(bodies)
    /\ Remember(Called("getBodies", 0, Zero))
    /\ UNCHANGED <<gravity, timeScale, maxSteps, bodies, body, updates, removed,
                   otherBodies, beyondPhysics>>

\* the caller adds b to the Set it was given
ViewAdd(b) ==
    /\ view.made
    /\ IF view.own
       THEN view' = [view EXCEPT !.members = SetAdd(view.members, b)]
            /\ UNCHANGED bodies
       ELSE bodies' = SetAdd(bodies, b) /\ UNCHANGED view
    /\ Remember(Called("view.add", b, Zero))
    /\ UNCHANGED <<gravity, timeScale, maxSteps, body, updates, removed, otherBodies,
                   beyondPhysics>>

\* the caller deletes b from the Set it was given
ViewDelete(b) ==
    /\ view.made
    /\ IF view.own
       THEN view' = [view EXCEPT !.members = SetDelete(view.members, b)]
            /\ UNCHANGED bodies
       ELSE bodies' = SetDelete(bodies, b) /\ UNCHANGED view
    /\ Remember(Called("view.delete", b, Zero))
    /\ UNCHANGED <<gravity, timeScale, maxSteps, body, updates, removed, otherBodies,
                   beyondPhysics>>

\* addBody(b) on the second engine
OtherAddBody(b) ==
    /\ otherBodies' = SetAdd(otherBodies, b)
    /\ Remember(Called("other.addBody", b, Zero))
    /\ UNCHANGED <<gravity, timeScale, maxSteps, bodies, body, updates, removed, view,
                   beyondPhysics>>

\* removeBody(b) on the second engine
OtherRemoveBody(b) ==
    /\ otherBodies' = SetDelete(otherBodies, b)
    /\ Remember(Called("other.removeBody", b, Zero))
    /\ UNCHANGED <<gravity, timeScale, maxSteps, bodies, body, updates, removed, view,
                   beyondPhysics>>

NextRegistry ==
    \/ \E b \in BodyIds : AddBody(b)
    \/ \E b \in BodyIds : RemoveBody(b)
    \/ GetBodies
    \/ \E b \in BodyIds : ViewAdd(b)
    \/ \E b \in BodyIds : ViewDelete(b)
    \/ \E b \in BodyIds : OtherAddBody(b)
    \/ \E b \in BodyIds : OtherRemoveBody(b)

SpecRegistry == Init /\ [][NextRegistry]_vars

\* the GameEngine on its own
SpecGame == Init /\ [][NextGame]_vars

\* an EventEmitter on its own
SpecEmitter == Init /\ [][NextEmitter]_vars

\* Entities and the Components the gameplay code gives them
SpecEntity == Init /\ [][NextEntity]_vars

\* Entities that are updated and rendered
SpecShown == Init /\ [][NextShown]_vars

\* an InputManager and the touch screen
SpecInput == Init /\ [][NextInput]_vars

\* a NetworkManager and the browser's sockets and timers
SpecNetwork == Init /\ [][NextNetwork]_vars

----------------------------------------------------------------------------
(* isColliding and resolveCollision on their own: the pair is drawn from  *)
(* PairHeap and one call  is made on it, as checkCollisions makes it.     *)

InitPair ==
    /\ gravity = DefaultGravity
    /\ timeScale = DefaultTimeScale
    /\ maxSteps = DefaultMaxSteps
    /\ bodies = <<1, 2>>
    /\ \E v1 \in PairVelocities, e1 \in PairRestitutions, s1 \in BOOLEAN,
          p2 \in PairPositions, w2 \in PairWidths,
          v2 \in PairVelocities, e2 \in PairRestitutions, s2 \in BOOLEAN :
            \/ body = PairHeap(v1, e1, s1, p2, w2, v2, e2, s2)
            \/ body = PointHeap(v1, s1, v2, s2)
    /\ updates = 0
    /\ removed = {}
    /\ view = NoView
    /\ otherBodies = <<>>
    /\ GameInit
    /\ EmitterInit
    /\ NetworkInit
    /\ EntityInit
    /\ InputInit
    /\ last = [call |-> NoCall, body |-> body, bodies |-> bodies, view |-> <<>>]

IsCollidingCall(a, b) ==
    /\ last.call.op = "new"
    /\ Remember([Called("isColliding", a, Zero) EXCEPT
                    !.b = b,
                    !.colliding = isColliding(body[a], body[b])])
    /\ UNCHANGED <<gravity, timeScale, maxSteps, bodies, body, updates, removed, outside>>

\* line 85-86: resolveCollision is called on the pairs that collide
ResolveCollisionCall(a, b) ==
    /\ last.call.op = "new"
    /\ isColliding(body[a], body[b])
    /\ ResolveInDomain(body[a], body[b])
    /\ body' = withPair(World(body), a, b, resolveCollision(body[a], body[b])).body
    /\ Remember([Called("resolveCollision", a, Zero) EXCEPT !.b = b, !.colliding = TRUE])
    /\ UNCHANGED <<gravity, timeScale, maxSteps, bodies, updates, removed, outside>>

\* update(deltaTime) on the pair
UpdateCall(deltaTime) ==
    /\ last.call.op = "new"
    /\ Update(deltaTime)

NextPair ==
    \/ \E a, b \in {1, 2} : a # b /\ IsCollidingCall(a, b)
    \/ \E a, b \in {1, 2} : a # b /\ ResolveCollisionCall(a, b)
    \/ \E deltaTime \in DeltaTimes : UpdateCall(deltaTime)

SpecPair == InitPair /\ [][NextPair]_vars

----------------------------------------------------------------------------
(* The claims.  "last" holds the call that led to the state and the objects *)
(* and the registry as that call found them; "body" and "bodies" hold what *)
(* it left.                                                               *)

Dot(v, n) == Add(Mul(v.x, n.x), Mul(v.y, n.y))

\* the component of v perpendicular to n
Cross(v, n) == Sub(Mul(v.x, n.y), Mul(v.y, n.x))

\* the least natural number k with k * (1/60) >= t, for t >= 0
LeastStepsCovering(t) ==
    CHOOSE k \in 0..((t.n * 60) \div t.d + 1) :
        /\ Le(t, Q(k, 60))
        /\ k = 0 \/ Lt(Q(k - 1, 60), t)

\* C1: an update with deltaTime >= 0, timeScale >= 0 and a natural maxSteps
\* runs min(maxSteps, ceil(deltaTime * timeScale / fixedStep)) sub-steps, and
\* each of them is given the duration 1/60, not scaledDelta / steps.
C1_FixedSubSteps ==
    (/\ last.call.op = "update"
     /\ Le(Zero, last.call.arg)
     /\ Le(Zero, timeScale)
     /\ Le(Zero, maxSteps) /\ maxSteps.d = 1)
    => LET k == LeastStepsCovering(Mul(last.call.arg, timeScale))
       IN  /\ last.call.steps = (IF maxSteps.n < k THEN maxSteps.n ELSE k)
           /\ Len(last.call.dts) = last.call.steps
           /\ \A i \in 1..Len(last.call.dts) : last.call.dts[i] = Q(1, 60)

\* an update of 1/40 s at time scale 1: two sub-steps for 1.5 fixed steps
C1_Witness ==
    /\ last.call.op = "update"
    /\ last.call.arg = Q(1, 40)
    /\ timeScale = Num(1)
    /\ maxSteps = Num(3)
    /\ last.call.steps = 2

\* C2: no call changes the position or the velocity of a static body: they
\* are what they were before the call, and what they were at the start.
C2_StaticUnchanged ==
    \A b \in BodyIds :
        last.body[b].isStatic =>
            /\ body[b].isStatic
            /\ body[b].position = last.body[b].position
            /\ body[b].velocity = last.body[b].velocity
            /\ body[b].position = InitialHeap[b].position
            /\ body[b].velocity = InitialHeap[b].velocity

\* an update with the box, the floor and the second static box registered,
\* in which the box has bounced off the floor
C2_Witness ==
    /\ last.call.op = "update"
    /\ last.call.steps >= 1
    /\ Range(bodies) = {1, 2, 3}
    /\ isColliding(body[2], body[3])
    /\ Lt(body[1].velocity.y, Zero)

\* C3: with timeScale = 0 an update runs no sub-step and leaves every object
\* as it was.
C3_FrozenAtTimeScaleZero ==
    (last.call.op = "update" /\ timeScale = Zero)
    => /\ last.call.steps = 0
       /\ body = last.body

C3_Witness ==
    /\ last.call.op = "update"
    /\ timeScale = Zero
    /\ last.call.arg = Q(1, 10)
    /\ maxSteps = Num(3)
    /\ 1 \in Range(bodies)
    /\ gravity = DefaultGravity

\* C4: one sub-step on a registry of one non-static body at rest, under
\* gravity (0, g): velocity.y = g/60, position.y grows by g/3600, the x
\* components stay and the acceleration is (0, 0).
C4_OneStepUnderGravity ==
    (/\ last.call.op = "update"
     /\ last.call.steps = 1
     /\ Len(last.bodies) = 1
     /\ ~last.body[last.bodies[1]].isStatic
     /\ last.body[last.bodies[1]].velocity = Vec(Zero, Zero)
     /\ last.body[last.bodies[1]].acceleration = Vec(Zero, Zero)
     /\ gravity.x = Zero)
    => LET b == last.bodies[1]
           g == gravity.y
       IN  /\ body[b].velocity.y = Mul(g, Q(1, 60))
           /\ body[b].position.y = Add(last.body[b].position.y, Mul(g, Q(1, 3600)))
           /\ body[b].velocity.x = Zero
           /\ body[b].position.x = last.body[b].position.x
           /\ body[b].acceleration = Vec(Zero, Zero)

C4_Witness ==
    /\ last.call.op = "update"
    /\ last.call.steps = 1
    /\ last.bodies = <<1>>
    /\ gravity = DefaultGravity
    /\ body[1].velocity = Vec(Zero, Q(327, 2000))
    /\ body[1].position = Vec(Zero, Q(109, 40000))

\* the edges of a box whose position and size are integers
BoxLeft(o) == o.position.x.n

BoxRight(o) == o.position.x.n + o.bounds.width.n

BoxTop(o) == o.position.y.n

BoxBottom(o) == o.position.y.n + o.bounds.height.n

\* C5: isColliding(A, B) is false exactly when aRight < bLeft or aLeft >
\* bRight or aBottom < bTop or aTop > bBottom, so boxes that touch collide;
\* isColliding(B, A) is the same.
C5_IsColliding ==
    last.call.op = "isColliding"
    => LET A == body[last.call.a]
           B == body[last.call.b]
       IN  /\ last.call.colliding =
                 ~(\/ BoxRight(A) < BoxLeft(B)
                   \/ BoxLeft(A) > BoxRight(B)
                   \/ BoxBottom(A) < BoxTop(B)
                   \/ BoxTop(A) > BoxBottom(B))
           /\ last.call.colliding = isColliding(B, A)

\* boxes that touch at one corner are reported colliding
C5_Witness ==
    /\ last.call.op = "isColliding"
    /\ last.call.a = 1
    /\ BoxRight(body[1]) = BoxLeft(body[2])
    /\ BoxBottom(body[1]) = BoxTop(body[2])
    /\ last.call.colliding

\* the pair resolveCollision was called on, as the call found it
PreA == last.body[last.call.a]

PreB == last.body[last.call.b]

\* C6: resolveCollision on two non-static bodies with relative normal
\* velocity <= 0: with pair restitution 1 the velocity components along the
\* normal are exchanged, with pair restitution 0 they end equal; the
\* components perpendicular to the normal stay.
C6_NormalVelocities ==
    (/\ last.call.op = "resolveCollision"
     /\ ~PreA.isStatic /\ ~PreB.isStatic
     /\ Le(RelativeVelocity(PreA, PreB), Zero))
    => LET n == Normal(PreA, PreB)
           e == MathMin(PreA.restitution, PreB.restitution)
           vA == body[last.call.a].velocity
           vB == body[last.call.b].velocity
       IN  /\ e = Num(1) => /\ Dot(vA, n) = Dot(PreB.velocity, n)
                            /\ Dot(vB, n) = Dot(PreA.velocity, n)
           /\ e = Zero => Dot(vA, n) = Dot(vB, n)
           /\ Cross(vA, n) = Cross(PreA.velocity, n)
           /\ Cross(vB, n) = Cross(PreB.velocity, n)

\* an elastic collision along the normal (3/5, 4/5)
C6_Witness ==
    /\ last.call.op = "resolveCollision"
    /\ ~PreA.isStatic /\ ~PreB.isStatic
    /\ MathMin(PreA.restitution, PreB.restitution) = Num(1)
    /\ Lt(RelativeVelocity(PreA, PreB), Zero)
    /\ Normal(PreA, PreB) = Vec(Q(3, 5), Q(4, 5))
    /\ body[last.call.a].velocity # PreA.velocity

\* C7: resolveCollision on a static and a non-static body that do not move
\* apart, with overlap > 0: the non-static body is displaced by overlap
\* times the unit vector from the static body's centre to its own, and the
\* static body stays; the same whichever of the two is bodyA.
C7_PushedOutByOverlap ==
    (/\ last.call.op = "resolveCollision"
     /\ PreA.isStatic # PreB.isStatic
     /\ Le(RelativeVelocity(PreA, PreB), Zero)
     /\ Gt(Overlap(PreA, PreB), Zero))
    => LET s == IF PreA.isStatic THEN last.call.a ELSE last.call.b
           d == IF PreA.isStatic THEN last.call.b ELSE last.call.a
           away == Normal(last.body[s], last.body[d])
           overlap == Overlap(PreA, PreB)
       IN  /\ body[s].position = last.body[s].position
           /\ Sub(body[d].position.x, last.body[d].position.x) = Mul(overlap, away.x)
           /\ Sub(body[d].position.y, last.body[d].position.y) = Mul(overlap, away.y)

\* bodyA static, bodyB not: the branch of line 165
C7_Witness ==
    /\ last.call.op = "resolveCollision"
    /\ PreA.isStatic /\ ~PreB.isStatic
    /\ Le(RelativeVelocity(PreA, PreB), Zero)
    /\ Overlap(PreA, PreB) = Num(1)
    /\ Normal(PreA, PreB) = Vec(Q(3, 5), Q(4, 5))
    /\ body[last.call.b].position # PreB.position

\* C8: resolveCollision on a pair whose relative velocity along the normal
\* is > 0 changes nothing.
C8_SeparatingPairUntouched ==
    (/\ last.call.op = "resolveCollision"
     /\ Gt(RelativeVelocity(PreA, PreB), Zero))
    => body = last.body

C8_Witness ==
    /\ last.call.op = "resolveCollision"
    /\ ~PreA.isStatic
    /\ Gt(RelativeVelocity(PreA, PreB), Zero)
    /\ Gt(Overlap(PreA, PreB), Zero)

\* the objects h with those of S moved far from all the others
MovedAway(h, S) ==
    [b \in BodyIds |->
        IF b \in S THEN [h[b] EXCEPT !.position = Vec(Num(1000), Num(1000))]
        ELSE h[b]]

\* C9: an update leaves a removed body as it was, and leaves every other
\* body as it would be were the removed bodies far away.
C9_RemovedBodyNotReferenced ==
    last.call.op = "update"
    => /\ \A b \in removed : body[b] = last.body[b]
       /\ LET w == runSteps(World(MovedAway(last.body, removed)), bodies, gravity,
                            fixedTimeStep, last.call.steps)
          IN  \A c \in BodyIds \ removed : body[c] = w.body[c]

\* the floor was removed: the box falls through the place of the floor
C9_Witness ==
    /\ last.call.op = "update"
    /\ last.call.steps >= 1
    /\ 2 \in removed
    /\ 1 \in Range(bodies)
    /\ isColliding(last.body[1], last.body[2])
    /\ Gt(body[1].velocity.y, Zero)
    /\ Gt(body[1].position.y, Zero)

\* C10: removeBody(b) leaves every object as it was, leaves the registry
\* without b and otherwise as it was, leaves it unchanged when b was not in
\* it, and a second removeBody(b) changes nothing.
C10_RemoveBodyIdempotent ==
    last.call.op = "removeBody"
    => /\ body = last.body
       /\ Range(bodies) = Range(last.bodies) \ {last.call.a}
       /\ last.call.a \notin Range(last.bodies) => bodies = last.bodies
       /\ SetDelete(bodies, last.call.a) = bodies

\* removeBody of a body that is not registered, on a registry that is not empty
C10_Witness ==
    /\ last.call.op = "removeBody"
    /\ last.call.a \notin Range(last.bodies)
    /\ Len(last.bodies) >= 1
    /\ last.call.a \in removed
----------------------------------------------------------------------------
\* C11: getBodies() returns a Set with exactly the registered bodies; adding
\* to or deleting from that Set leaves the registry as it was, and addBody
\* and removeBody leave a Set returned earlier as it was.
C11_GetBodiesIsACopy ==
    /\ last.call.op = "getBodies" =>
          /\ view.made
          /\ Range(Members(view, bodies)) = Range(bodies)
          /\ bodies = last.bodies
    /\ last.call.op \in {"view.add", "view.delete"} => bodies = last.bodies
    /\ (last.call.op \in {"addBody", "removeBody"} /\ view.made) =>
          Members(view, bodies) = last.view

\* a removeBody that changed the registry after the caller changed its Set:
\* each of the two has a body the other has not
C11_Witness ==
    /\ last.call.op = "removeBody"
    /\ view.made
    /\ bodies # last.bodies
    /\ Range(Members(view, bodies)) \ Range(bodies) # {}
    /\ Range(bodies) \ Range(Members(view, bodies)) # {}

----------------------------------------------------------------------------
\* C19: a body is a member of at most one engine's body set at a time: in no
\* state is a body in the registries of both engines.
C19_AtMostOneEngine == Range(bodies) \cap Range(otherBodies) = {}

----------------------------------------------------------------------------
\* C12: setTimeScale(scale) stores max(0, scale), which is 0 for a negative
\* scale, and an update that finds timeScale 0 runs no sub-step.  update
\* itself stores nothing in timeScale: a negative timeScale it finds (one
\* initialize stored) is still there after it.
C12_SetterClamps ==
    /\ last.call.op = "setTimeScale" =>
          /\ Lt(last.call.arg, Zero) => timeScale = Zero
          /\ ~Lt(last.call.arg, Zero) => timeScale = last.call.arg
          /\ ~Lt(timeScale, Zero)
    /\ last.call.op = "update" =>
          /\ timeScale = last.call.scale
          /\ timeScale = Zero => (last.call.steps = 0 /\ body = last.body)

\* setTimeScale(-1)
C12_Witness ==
    /\ last.call.op = "setTimeScale"
    /\ Lt(last.call.arg, Zero)
    /\ timeScale = Zero

----------------------------------------------------------------------------
\* C13: after initialize(config), whatever the engine's state was, each of
\* gravity, timeScale and maxSteps is the value config has for it, and its
\* default ({0, 9.81}, 1.0, 3) when config has none.
C13_InitializeOptions ==
    last.call.op = "initialize" =>
        /\ gravity = Coalesce(last.call.config, "gravity", DefaultGravity)
        /\ timeScale = Coalesce(last.call.config, "timeScale", DefaultTimeScale)
        /\ maxSteps = Coalesce(last.call.config, "maxSteps", DefaultMaxSteps)

----------------------------------------------------------------------------
\* the sum of a sequence of numbers
RECURSIVE Sum(_)
Sum(ds) == IF ds = <<>> THEN Zero ELSE Add(Head(ds), Sum(Tail(ds)))

\* C14: an update with deltaTime >= 0 ends after at most maxSteps sub-steps,
\* however large deltaTime and whatever timeScale is, and the time the
\* sub-steps simulate is at most maxSteps * fixedStep.
C14_BoundedWork ==
    (last.call.op = "update" /\ Le(Zero, last.call.arg))
    => /\ last.call.steps \in Nat
       /\ Le(Num(last.call.steps), maxSteps)
       /\ Len(last.call.dts) = last.call.steps
       /\ Le(Sum(last.call.dts), Mul(maxSteps, fixedTimeStep))

\* an update of 1/10 s at time scale 2: twelve fixed steps asked, three run
C14_Witness ==
    /\ last.call.op = "update"
    /\ last.call.arg = Q(1, 10)
    /\ timeScale = Num(2)
    /\ maxSteps = Num(3)
    /\ last.call.steps = 3
    /\ bodies # <<>>

----------------------------------------------------------------------------
\* the places of the trace t where a sub-step begins
StepStarts(t) == {i \in 1..Len(t) : t[i].kind = "step"}

\* what the sub-step that begins at i did
Segment(t, i) ==
    SubSeq(t, i + 1,
           (CHOOSE e \in (StepStarts(t) \cup {Len(t) + 1}) :
               /\ e > i
               /\ \A f \in StepStarts(t) : f > i => e <= f) - 1)

\* the place of the object b in the registry
Place(registry, b) == CHOOSE i \in 1..Len(registry) : registry[i] = b

\* in the sub-step sg every non-static registered body is integrated once, no
\* test comes before an integration, and every pair of registered bodies is
\* tested once, the body that comes first in the registry first
StepInOrder(sg, registry, h) ==
    /\ \A i, j \in 1..Len(sg) :
          (sg[i].kind = "test" /\ sg[j].kind = "integrate") => j < i
    /\ \A b \in BodyIds :
          Cardinality({i \in 1..Len(sg) : sg[i].kind = "integrate" /\ sg[i].a = b})
              = (IF b \in Range(registry) /\ ~h[b].isStatic THEN 1 ELSE 0)
    /\ \A a, b \in Range(registry) :
          a # b =>
            Cardinality({i \in 1..Len(sg) :
                            sg[i].kind = "test" /\ {sg[i].a, sg[i].b} = {a, b}}) = 1
    /\ \A i \in 1..Len(sg) :
          sg[i].kind = "test" =>
            /\ {sg[i].a, sg[i].b} \subseteq Range(registry)
            /\ Place(registry, sg[i].a) < Place(registry, sg[i].b)

\* C15: in each sub-step of an update all non-static bodies are integrated
\* before any pair is tested, and then every unordered pair of registered
\* bodies, static-static pairs too, is tested exactly once, i < j.
C15_IntegrateThenScan ==
    last.call.op = "update" =>
        /\ Cardinality(StepStarts(last.call.trace)) = last.call.steps
        /\ \A i \in StepStarts(last.call.trace) :
              StepInOrder(Segment(last.call.trace, i), bodies, last.body)

\* an update of two sub-steps or more on three bodies, two of them static
C15_Witness ==
    /\ last.call.op = "update"
    /\ last.call.steps >= 2
    /\ Len(bodies) = 3
    /\ Cardinality({b \in BodyIds : body[b].isStatic}) = 2
    /\ \E i \in 1..Len(last.call.trace) :
          /\ last.call.trace[i].kind = "test"
          /\ body[last.call.trace[i].a].isStatic
          /\ body[last.call.trace[i].b].isStatic

----------------------------------------------------------------------------
\* what the simulation computes of the objects
Kinematics(h) ==
    [b \in BodyIds |-> [position |-> h[b].position, velocity |-> h[b].velocity,
                        acceleration |-> h[b].acceleration]]

\* the objects h with the masses m and the frictions f
Reweighed(h, m, f) == [b \in BodyIds |-> [h[b] EXCEPT !.mass = m[b], !.friction = f[b]]]

MassVariants == {<<Num(5), Num(5), Num(5)>>, <<Num(2), Num(7), Q(1, 2)>>}

FrictionVariants == {<<Zero, Zero, Zero>>, <<Q(1, 2), Num(1), Num(3)>>}

\* C16: mass and friction do not influence the simulation: the same update,
\* and the same resolveCollision, on objects that differ from the ones of
\* the run only in mass and friction leaves the same positions, velocities
\* and accelerations.
C16_MassAndFrictionUnused ==
    \A m \in MassVariants, f \in FrictionVariants :
        /\ last.call.op = "update" =>
              Kinematics(runSteps(World(Reweighed(last.body, m, f)), bodies, gravity,
                                  fixedTimeStep, last.call.steps).body)
                  = Kinematics(body)
        /\ last.call.op = "resolveCollision" =>
              LET r == resolveCollision(Reweighed(last.body, m, f)[last.call.a],
                                        Reweighed(last.body, m, f)[last.call.b])
              IN  /\ body[last.call.a].position = r[1].position
                  /\ body[last.call.a].velocity = r[1].velocity
                  /\ body[last.call.b].position = r[2].position
                  /\ body[last.call.b].velocity = r[2].velocity

\* an update in which two non-static bodies of different mass collided
C16_Witness ==
    /\ last.call.op = "update"
    /\ last.call.steps >= 1
    /\ ~body[1].isStatic /\ ~body[2].isStatic
    /\ body[1].mass # body[2].mass
    /\ isColliding(last.body[1], last.body[2])
    /\ body[1].velocity.x # last.body[1].velocity.x
    /\ body[2].velocity.x # last.body[2].velocity.x

----------------------------------------------------------------------------
\* C17: resolving a colliding pair whose centres do not coincide gives both
\* bodies the same velocities and positions in either order of the two
\* arguments, be the pair dynamic-dynamic, dynamic-static or static-dynamic.
C17_OrderIndependent ==
    (/\ last.call.op = "resolveCollision"
     /\ ~(CentreDx(PreA, PreB) = Zero /\ CentreDy(PreA, PreB) = Zero))
    => /\ body[last.call.a].velocity = resolveCollision(PreB, PreA)[2].velocity
       /\ body[last.call.a].position = resolveCollision(PreB, PreA)[2].position
       /\ body[last.call.b].velocity = resolveCollision(PreB, PreA)[1].velocity
       /\ body[last.call.b].position = resolveCollision(PreB, PreA)[1].position

\* two non-static boxes of different width that overlap, moved by the call
C17_Witness ==
    /\ last.call.op = "resolveCollision"
    /\ ~PreA.isStatic /\ ~PreB.isStatic
    /\ PreA.bounds.width # PreB.bounds.width
    /\ CentreDx(PreA, PreB) # Zero
    /\ Gt(Overlap(PreA, PreB), Zero)
    /\ body[last.call.a].velocity # PreA.velocity
    /\ body[last.call.a].position # PreA.position
    /\ body[last.call.b].position # PreB.position

----------------------------------------------------------------------------
\* resolveCollision was called on a pair, not both static, with one centre
CoincidentCentres ==
    /\ last.call.op = "resolveCollision"
    /\ ~(PreA.isStatic /\ PreB.isStatic)
    /\ CentreDx(PreA, PreB) = Zero
    /\ CentreDy(PreA, PreB) = Zero

\* the static bodies of the pair, and the bodies outside it, are as before
C18_OthersUnchanged ==
    \A c \in BodyIds :
        (c \notin {last.call.a, last.call.b} \/ last.body[c].isStatic)
            => body[c] = last.body[c]

\* C18 as claimed: on a colliding pair, not both static, with coincident
\* centres, resolveCollision ends and every non-static body of the pair has
\* NaN velocity and NaN position; a static body of the pair and the bodies
\* outside the pair are unchanged.
C18_NaNVelocityAndPosition ==
    CoincidentCentres =>
        /\ C18_OthersUnchanged
        /\ \A c \in {last.call.a, last.call.b} :
              ~last.body[c].isStatic =>
                  /\ body[c].velocity = Vec(NaN, NaN)
                  /\ body[c].position = Vec(NaN, NaN)

\* C18, amended: as above, but the position is NaN when the widths of the
\* two boxes sum to more than 0 (the overlap is positive), and is left as it
\* was otherwise.
C18_NaNVelocityPositionIfOverlap ==
    CoincidentCentres =>
        /\ C18_OthersUnchanged
        /\ \A c \in {last.call.a, last.call.b} :
              ~last.body[c].isStatic =>
                  /\ body[c].velocity = Vec(NaN, NaN)
                  /\ body[c].position =
                        (IF Gt(Add(PreA.bounds.width, PreB.bounds.width), Zero)
                         THEN Vec(NaN, NaN)
                         ELSE last.body[c].position)

\* a static box and a moving box with one centre: the moving one is lost
C18_Witness ==
    /\ CoincidentCentres
    /\ PreA.isStatic /\ ~PreB.isStatic
    /\ Gt(PreA.bounds.width, Zero)
    /\ body[last.call.b].velocity = Vec(NaN, NaN)
    /\ body[last.call.b].position = Vec(NaN, NaN)
    /\ body[last.call.a] = PreA

----------------------------------------------------------------------------
\* the places of the calls of the kind k in the frame
Calls(k) == {i \in 1..Len(frame.did) : frame.did[i].kind = k}

\* C20: a frame of gameLoop with a scene set computes deltaTime, calls
\* currentScene.update(deltaTime), renderer.clear() and
\* currentScene.render(renderer) in this order; no render comes without the
\* update and the clear of its frame before it; and with no scene set the
\* frame updates and draws nothing and still schedules the next frame.
C20_FrameOrder ==
    frame.ran =>
        /\ frame.scheduled
        /\ frame.scene # NoScene =>
              frame.did = <<Event("deltaTime", 0, Q(frame.at - frame.before, 1000)),
                            Event("update", frame.scene, Q(frame.at - frame.before, 1000)),
                            Event("clear", 0, Zero),
                            Event("render", frame.scene, Zero)>>
        /\ \A i \in Calls("render") :
              /\ \E j \in Calls("update") : j < i
              /\ \E j \in Calls("clear") : j < i
        /\ frame.scene = NoScene =>
              Calls("update") \cup Calls("clear") \cup Calls("render") = {}

\* a frame half a second after the one before, with a scene set
C20_Witness ==
    /\ frame.ran
    /\ frame.scene # NoScene
    /\ frame.at - frame.before = 500
    /\ Len(frame.did) = 4
    /\ frame.scheduled

----------------------------------------------------------------------------
\* C21: from stop() until the next start(), whatever happens updates and
\* renders no scene and schedules no frame: a callback that was pending
\* when stop() was called returns at once when it fires.
C21_StoppedLoopDoesNothing ==
    [][(~game.isRunning /\ ~game'.isRunning)
         => /\ raf' <= raf
            /\ frame' # frame =>
                  /\ ~frame'.ran
                  /\ frame'.did = <<>>
                  /\ ~frame'.scheduled
            /\ game'.frameCount = game.frameCount
            /\ game'.lastFrameTime = game.lastFrameTime]_vars

\* the engine ran a frame with a scene, was stopped, and the callback that
\* was pending has fired, later, and found the engine stopped
C21_Witness ==
    /\ ~game.isRunning
    /\ game.frameCount >= 1
    /\ game.currentScene # NoScene
    /\ raf = 0
    /\ ~frame.ran
    /\ frame.scene # NoScene
    /\ frame.at > frame.before

----------------------------------------------------------------------------
\* getFPS() (lines 90-92)
getFPS == game.fps

\* C22: once the loop has executed frames over one second or more, fps is
\* the number of frames it executed in that second and frameCount has
\* restarted from 0: in the frame that ends the first second after start(),
\* getFPS() is the number of frames run since start().
C22_FpsIsFrameCount ==
    (/\ frame.ran
     /\ frame.at - frame.since >= 1000
     /\ frame.before - frame.since < 1000)
    => /\ getFPS = frame.frames
       /\ game.frameCount = 0

----------------------------------------------------------------------------
\* the functions the last emit called itself, in the order of the calls
AtTop(x) == x.depth = 0

TopCalls == [i \in 1..Len(SelectSeq(heard.log, AtTop)) |-> SelectSeq(heard.log, AtTop)[i].fn]

\* fn unregisters a function when it is called
Unregisters(fn) == fn.serial > 0 \/ fn.cb \in {Remover, SelfRemover}

\* C23: emit calls every function that is registered for the event when
\* emit is called, once for each registration and in the order of the
\* registrations, whatever the functions unregister during the emit.
C23_EmitCallsAllRegistered ==
    heard.op = "emit" => TopCalls = heard.pre

C25_ThrowIsContained ==
    heard.op = "emit" =>
        /\ ~heard.escaped
        /\ (\A i \in 1..Len(heard.pre) : ~Unregisters(heard.pre[i]))
              => /\ TopCalls = heard.pre
                 /\ ArrayOf(events, "hit") = heard.pre

\* an emit called a callback that throws and then the callback after it
C25_Witness ==
    /\ heard.op = "emit"
    /\ Len(heard.pre) >= 2
    /\ heard.pre[1] = Fn(Thrower, 0)
    /\ heard.pre[2] = Fn(Plain, 0)
    /\ TopCalls = heard.pre
    /\ ArrayOf(events, "hit") = heard.pre

----------------------------------------------------------------------------
\* how often the message m is in the sequence q
Occurrences(q, m) == Cardinality({i \in 1..Len(q) : q[i] = m})

RECURSIVE TransmittedUpTo(_, _)
TransmittedUpTo(m, s) ==
    IF s = 0 THEN 0 ELSE Occurrences(sockets[s].sent, m) + TransmittedUpTo(m, s - 1)

\* how often the message m has been transmitted, on any socket
Transmitted(m) == TransmittedUpTo(m, Len(sockets))

\* C26: a message passed to send while the socket is not open is queued;
\* when a socket opens, the queued messages are transmitted in the order
\* they were sent and the queue is empty; a message passed to send while the
\* socket is open is transmitted at once and not queued; so every message is
\* either waiting in the queue or has been transmitted exactly once.
C26_QueuedThenSentInOrder ==
    /\ told.op \in {"send", "ping"} =>
          IF told.open
          THEN told.sent = <<net.messages>> /\ net.messageQueue = told.queued
          ELSE told.sent = <<>> /\ net.messageQueue = Append(told.queued, net.messages)
    /\ told.op = "open" => told.sent = told.queued /\ net.messageQueue = <<>>
    /\ \A m \in 1..net.messages :
          Occurrences(net.messageQueue, m) + Transmitted(m) = 1

----------------------------------------------------------------------------
\* C27: currentAttempt never exceeds reconnectAttempts; a disconnect that
\* finds currentAttempt at reconnectAttempts schedules no connection; and
\* the opening of a socket sets currentAttempt to 0.
C27_ReconnectionBounded ==
    /\ net.currentAttempt <= net.reconnectAttempts
    /\ (told.op = "close" /\ told.attempt >= told.limit) => ~told.scheduled
    /\ told.op = "open" => net.currentAttempt = 0

----------------------------------------------------------------------------
\* the velocity of the object o after n steps of duration dt under the
\* acceleration g, the first of them under the acceleration a + g as well
AfterSteps(v, a, g, dt, n) == Add(v, Add(Mul(Add(a, g), dt), Mul(Mul(g, Num(n - 1)), dt)))

\* C28: after an update of one sub-step or more, every registered non-static
\* body has the acceleration (0, 0); and the acceleration the caller had put
\* on a body counts in the first sub-step only: the velocity of a body that
\* is alone in the registry is what it was, plus (acceleration + gravity) *
\* step for the first sub-step, plus gravity * step for each later one.
C28_AccelerationReset ==
    (last.call.op = "update" /\ last.call.steps >= 1) =>
        /\ \A b \in Range(bodies) :
              ~body[b].isStatic => body[b].acceleration = Vec(Zero, Zero)
        /\ \A b \in Range(bodies) :
              (~body[b].isStatic /\ Len(bodies) = 1) =>
                  /\ body[b].velocity.x =
                        AfterSteps(last.body[b].velocity.x, last.body[b].acceleration.x,
                                   gravity.x, last.call.dts[1], last.call.steps)
                  /\ body[b].velocity.y =
                        AfterSteps(last.body[b].velocity.y, last.body[b].acceleration.y,
                                   gravity.y, last.call.dts[1], last.call.steps)

\* an update of three sub-steps on a body the caller had accelerated, next
\* to an update of two bodies
C28_Witness ==
    /\ last.call.op = "update"
    /\ last.call.steps = 3
    /\ bodies = <<1>>
    /\ last.body[1].acceleration = Vec(Num(-2), Num(3))
    /\ body[1].acceleration = Vec(Zero, Zero)
    /\ body[1].velocity.x = Q(-1, 30)

----------------------------------------------------------------------------
\* the body of the pair that is not static, before and after the call, and
\* the static one
PreMoving == IF PreA.isStatic THEN PreB ELSE PreA

PreFixed == IF PreA.isStatic THEN PreA ELSE PreB

PostMoving == IF PreA.isStatic THEN body[last.call.b] ELSE body[last.call.a]

\* C29 as it was stated: resolveCollision on a static and a non-static body
\* that do not move apart: the velocity of the non-static body along the
\* normal is minus the pair restitution times what it was, and its velocity
\* perpendicular to the normal stays.
C29_ReflectedAlongNormal ==
    (/\ last.call.op = "resolveCollision"
     /\ PreA.isStatic # PreB.isStatic
     /\ Le(RelativeVelocity(PreA, PreB), Zero))
    => /\ Dot(PostMoving.velocity, Normal(PreA, PreB)) =
              Mul(Neg(Restitution(PreA, PreB)),
                  Dot(PreMoving.velocity, Normal(PreA, PreB)))
       /\ Cross(PostMoving.velocity, Normal(PreA, PreB)) =
              Cross(PreMoving.velocity, Normal(PreA, PreB))

\* the velocity of v relative to the velocity u
Relative(v, u) == Vec(Sub(v.x, u.x), Sub(v.y, u.y))

\* C29: resolveCollision on a static and a non-static body that do not move
\* apart: the velocity of the non-static body relative to the static body's,
\* along the normal, is minus the pair restitution times what it was (so its
\* own velocity along the normal is, when the static body's velocity along
\* the normal is 0), and its velocity perpendicular to the normal stays.
C29_ReflectedRelativeToStatic ==
    (/\ last.call.op = "resolveCollision"
     /\ PreA.isStatic # PreB.isStatic
     /\ Le(RelativeVelocity(PreA, PreB), Zero))
    => /\ Dot(Relative(PostMoving.velocity, PreFixed.velocity), Normal(PreA, PreB)) =
              Mul(Neg(Restitution(PreA, PreB)),
                  Dot(Relative(PreMoving.velocity, PreFixed.velocity), Normal(PreA, PreB)))
       /\ Cross(PostMoving.velocity, Normal(PreA, PreB)) =
              Cross(PreMoving.velocity, Normal(PreA, PreB))

\* a body that moves along (-1, 2) hits a static body that moves along
\* (1, 0), along the normal (3/5, 4/5), and bounces with restitution 1/2
C29_Witness ==
    /\ last.call.op = "resolveCollision"
    /\ PreA.isStatic # PreB.isStatic
    /\ Lt(RelativeVelocity(PreA, PreB), Zero)
    /\ Normal(PreA, PreB) \in {Vec(Q(3, 5), Q(4, 5)), Vec(Q(-3, 5), Q(-4, 5))}
    /\ Restitution(PreA, PreB) = Q(1, 2)
    /\ PreFixed.velocity = Vec(Num(1), Zero)
    /\ PreMoving.velocity = Vec(Num(-1), Num(2))
    /\ PostMoving.velocity # PreMoving.velocity

----------------------------------------------------------------------------
\* C30: addComponent throws when the entity holds a component of the same
\* type, and then the components of the entity are what they were, the
\* component that was held is still held, and onAddedToEntity has not been
\* called on the component that was refused; otherwise it does not throw.
C30_DuplicateTypeRejected ==
    tried.op = "addComponent" =>
        IF has(tried.entities[tried.entity].components, ConstructorName(tried.component))
        THEN /\ tried.threw
             /\ entities = tried.entities
             /\ tried.calls = <<>>
             /\ attached = tried.attached
        ELSE ~tried.threw

\* an entity that holds a component was given another component of the same
\* class, which belongs to no entity
C30_Witness ==
    /\ tried.op = "addComponent"
    /\ tried.threw
    /\ tried.component = 2
    /\ attached[2] = NoEntity
    /\ entities[tried.entity].components = <<3, 1>>
    /\ attached[1] = tried.entity

----------------------------------------------------------------------------
\* the calls of hook the last call on an entity made, one for each of the
\* components the entity held
CalledOnEach(hook) ==
    /\ Len(tried.calls) = Len(entities[tried.entity].components)
    /\ \A i \in 1..Len(tried.calls) :
          tried.calls[i] = <<hook, entities[tried.entity].components[i]>>

\* C31: Entity.update calls update on no component while the entity is
\* inactive, and on each of its components once while it is active;
\* Entity.render calls render on no component while the entity is inactive
\* or invisible, and on each of its components once otherwise.
C31_ActiveAndVisible ==
    /\ tried.op = "update" =>
          IF entities[tried.entity].active
          THEN CalledOnEach("update") ELSE tried.calls = <<>>
    /\ tried.op = "render" =>
          IF entities[tried.entity].active /\ entities[tried.entity].visible
          THEN CalledOnEach("render") ELSE tried.calls = <<>>

\* update on an inactive entity that holds two components
C31_Witness ==
    /\ tried.op = "update"
    /\ ~entities[tried.entity].active
    /\ Len(entities[tried.entity].components) = 2
    /\ tried.calls = <<>>

----------------------------------------------------------------------------
\* C32: a touchend notifies the tap listeners only if a touch that ended
\* with it was on the screen for less than 300 ms, whatever other touches
\* began or ended meanwhile; a touchcancel notifies no listener.
C32_TapIsAShortTouch ==
    /\ (felt.op = "touchend" /\ felt.notified # {}) => felt.shortest < TapLimit
    /\ felt.op = "touchcancel" => felt.notified = {}

----------------------------------------------------------------------------
\* the sum of the vectors u and v
Plus(u, v) == Vec(Add(u.x, v.x), Add(u.y, v.y))

\* resolveCollision on two non-static bodies got past the test of line 133
ImpulseOnTwoMoving ==
    /\ last.call.op = "resolveCollision"
    /\ ~PreA.isStatic /\ ~PreB.isStatic
    /\ ~Gt(RelativeVelocity(PreA, PreB), Zero)

\* C33 as it was stated: when resolveCollision applies an impulse to two
\* non-static bodies, the sum of their velocities is what it was, and so is
\* the sum of their positions, hence their midpoint.
C33_SumsConserved ==
    ImpulseOnTwoMoving =>
        /\ Plus(body[last.call.a].velocity, body[last.call.b].velocity) =
              Plus(PreA.velocity, PreB.velocity)
        /\ Plus(body[last.call.a].position, body[last.call.b].position) =
              Plus(PreA.position, PreB.position)

\* C33: the same for two bodies whose centres do not coincide.
C33_SumsConservedApart ==
    (ImpulseOnTwoMoving /\ ~CoincidentCentres)
    => /\ Plus(body[last.call.a].velocity, body[last.call.b].velocity) =
              Plus(PreA.velocity, PreB.velocity)
       /\ Plus(body[last.call.a].position, body[last.call.b].position) =
              Plus(PreA.position, PreB.position)

\* two non-static boxes that overlap along the normal (3/5, 4/5) got an
\* impulse and were pushed apart
C33_Witness ==
    /\ ImpulseOnTwoMoving
    /\ Normal(PreA, PreB) = Vec(Q(3, 5), Q(4, 5))
    /\ Gt(Overlap(PreA, PreB), Zero)
    /\ body[last.call.a].velocity # PreA.velocity
    /\ body[last.call.b].velocity # PreB.velocity
    /\ body[last.call.a].position # PreA.position
    /\ body[last.call.b].position # PreB.position

----------------------------------------------------------------------------
\* C34: whatever start(), stop() and the frame callbacks have done, at most
\* one callback of gameLoop is pending in requestAnimationFrame, so that
\* the scene is updated once for each frame the browser displays.
C34_OneLoopChain == raf <= 1

----------------------------------------------------------------------------
\* C35: in every state reached through initialize, setTimeScale, setGravity,
\* addBody, removeBody and update, timeScale is 0 or more.
C35_TimeScaleNotNegative == Le(Zero, timeScale)

----------------------------------------------------------------------------
\* the entity e holds the component c in its Map
Holds(e, c) == c \in Range(entities[e].components)

\* C36: after any addComponent and removeComponent calls, an entity holds a
\* component exactly if getEntity() of the component is that entity; and
\* removeComponent with a component the entity does not hold takes no
\* component from the entity, whatever the type of the component.
C36_HeldIffAttached ==
    /\ \A e \in EntityIds, c \in ComponentIds : Holds(e, c) <=> attached[c] = e
    /\ (/\ tried.op = "removeComponent"
        /\ tried.component \notin Range(tried.entities[tried.entity].components))
       => entities = tried.entities

====
